---- MODULE Spec2Model ----
(***************************************************************************)
(* Model of the bit-banged 1-Wire bus driver (owb.c) and the DS18B20       *)
(* temperature sensor driver (ds18b20.c) of esp32-ds18b20-example.         *)
(*                                                                         *)
(* The GPIO line and the devices hanging on it are the environment: the    *)
(* levels sampled by the master are inputs of the actions, drawn from what *)
(* the attached devices (wired-AND, open drain) can put on the line.       *)
(***************************************************************************)
EXTENDS Integers, Sequences, FiniteSets, TLC

VARIABLES
    bus_init,           \* OneWireBus.init
    state,              \* OneWireBus_SearchState: the search cursor
    attached,           \* environment: ROM codes of the devices on the line
    op,                 \* the operation that ran last
    ret,                \* its return value
    obs,                \* what the last search pass did on the bus
    calls,              \* search calls made since (and including) owb_search_first
    device_rom_codes,   \* app_main: ROM codes collected by the enumeration loop
    crc_acc,            \* CRC8 accumulated from 0 over the bytes fed so far
    crc_len,            \* number of bytes fed so far
    crc_chk,            \* crc_acc folded once more over crc_acc itself
    ds18b20_info,       \* DS18B20_Info: the device handle
    device,             \* environment: the scratchpad inside the DS18B20
    wire,               \* what the last driver call did on the line, in order
    drv,                \* the last driver call's arguments and locals
    calc,               \* the last computation: its arguments and its result
    gpio,               \* the pin of the bus: its mode and its output level
    bus_use_crc         \* OneWireBus.use_crc

vars == << bus_init, state, attached, op, ret, obs, calls, device_rom_codes,
           crc_acc, crc_len, crc_chk, ds18b20_info, device, wire, drv,
           calc, gpio, bus_use_crc >>

busVars == << bus_init, state, attached, op, ret, obs, calls, device_rom_codes >>
crcVars == << crc_acc, crc_len, crc_chk >>
devVars == << ds18b20_info, device, wire, drv >>
calcVars == << calc >>
pinVars == << gpio, bus_use_crc >>

-----------------------------------------------------------------------------
(* uint8_t arithmetic *)

Byte == 0 .. 255

\* bit k (0 = least significant) of byte b
Bit(b, k) == (b \div (2 ^ k)) % 2

RECURSIVE XorBits(_, _, _)
XorBits(a, b, k) ==
    IF k = 8 THEN 0
    ELSE ((Bit(a, k) + Bit(b, k)) % 2) * (2 ^ k) + XorBits(a, b, k + 1)

\* a ^ b on uint8_t
Xor8(a, b) == XorBits(a, b, 0)

-----------------------------------------------------------------------------
(* CRC8 (owb.c, _calc_crc) *)

crc_table ==
    << 0, 94, 188, 226, 97, 63, 221, 131, 194, 156, 126, 32, 163, 253, 31, 65,
    157, 195, 33, 127, 252, 162, 64, 30, 95, 1, 227, 189, 62, 96, 130, 220,
    35, 125, 159, 193, 66, 28, 254, 160, 225, 191, 93, 3, 128, 222, 60, 98,
    190, 224, 2, 92, 223, 129, 99, 61, 124, 34, 192, 158, 29, 67, 161, 255,
    70, 24, 250, 164, 39, 121, 155, 197, 132, 218, 56, 102, 229, 187, 89, 7,
    219, 133, 103, 57, 186, 228, 6, 88, 25, 71, 165, 251, 120, 38, 196, 154,
    101, 59, 217, 135, 4, 90, 184, 230, 167, 249, 27, 69, 198, 152, 122, 36,
    248, 166, 68, 26, 153, 199, 37, 123, 58, 100, 134, 216, 91, 5, 231, 185,
    140, 210, 48, 110, 237, 179, 81, 15, 78, 16, 242, 172, 47, 113, 147, 205,
    17, 79, 173, 243, 112, 46, 204, 146, 211, 141, 111, 49, 178, 236, 14, 80,
    175, 241, 19, 77, 206, 144, 114, 44, 109, 51, 209, 143, 12, 82, 176, 238,
    50, 108, 142, 208, 83, 13, 239, 177, 240, 174, 76, 18, 145, 207, 45, 115,
    202, 148, 118, 40, 171, 245, 23, 73, 8, 86, 180, 234, 105, 55, 213, 139,
    87, 9, 235, 181, 54, 104, 138, 212, 149, 203, 41, 119, 244, 170, 72, 22,
    233, 183, 85, 11, 136, 214, 52, 106, 43, 117, 151, 201, 74, 20, 246, 168,
    116, 42, 200, 150, 21, 75, 169, 247, 182, 232, 10, 84, 215, 137, 107, 53 >>

\* a slip in the index expression: crc + data instead of crc ^ data
_calc_crc_sum(crc, data) == crc_table[((crc + data) % 256) + 1]

\* static uint8_t _calc_crc(uint8_t crc, uint8_t data): table[crc ^ data]
_calc_crc(crc, data) == crc_table[Xor8(crc, data) + 1]

RECURSIVE crc_fold(_, _)
\* for (i = 0; i < n; ++i) crc = _calc_crc(crc, buffer[i]);
crc_fold(crc, buffer) ==
    IF buffer = << >> THEN crc
    ELSE crc_fold(_calc_crc(crc, Head(buffer)), Tail(buffer))

-----------------------------------------------------------------------------
(* bounds of the model *)

\* the most devices on the line at once
MaxAttached == 2
\* the most devices on the line in the enumeration runs
MaxEnumDevices == 3
\* the most search calls after one owb_search_first in the enumeration runs
MaxCalls == 6
\* the longest byte sequence fed to the CRC8 accumulator
MaxCrcLen == 3
\* the largest tick period (portTICK_PERIOD_MS) of the builds considered
MaxTickPeriod == 10

(* program constants *)

OWB_ROM_SEARCH == 240

-----------------------------------------------------------------------------
(* ROM codes and the devices on the line (environment) *)

\* a ROM code: bytes[0..7] of OneWireBus_ROMCode, kept as a sequence 1..8
\* (family, six serial bytes) followed by the CRC8 of those seven bytes
MkRom(seven) == Append(seven, crc_fold(0, seven))

ZeroRom == << 0, 0, 0, 0, 0, 0, 0, 0 >>

\* 28 EE CC 87 2E 16 01 00: the known device of app_main
DevA == MkRom(<< 40, 238, 204, 135, 46, 22, 1 >>)
\* 28 EE 49 61 2C 16 02 F4
DevB == MkRom(<< 40, 238, 73, 97, 44, 22, 2 >>)
\* 28 EE B2 A5 2C 16 02 15
DevC == MkRom(<< 40, 238, 178, 165, 44, 22, 2 >>)
\* another family (DS18S20, 0x10): differs from the others inside the family byte
DevD == MkRom(<< 16, 1, 0, 0, 0, 0, 0 >>)
\* family byte 0x00 with a non-zero serial number, CRC-valid
DevZ == MkRom(<< 0, 1, 0, 0, 0, 0, 0 >>)
\* DevA's code with a wrong CRC byte: a device whose answer is corrupted
DevBad == << 40, 238, 204, 135, 46, 22, 1, 1 >>

\* ROM codes whose CRC8 over all eight bytes is zero
ValidRoms == { DevA, DevB, DevC, DevD, DevZ, ZeroRom }
AllRoms == ValidRoms \cup { DevBad }

\* the devices tried on the line whose answers may fail
LineRoms == { DevA, DevD, DevZ, ZeroRom, DevBad }

\* the 64 bits of each ROM code in the order a device sends them:
\* byte 0 first, each byte least-significant bit first
RomBits ==
    [ rom \in AllRoms |->
        [ n \in 1 .. 64 |-> Bit(rom[((n - 1) \div 8) + 1], (n - 1) % 8) ] ]

\* the bit a device sends at search position n (1..64)
RomBit(rom, n) == RomBits[rom][n]

\* open-drain line with pull-up: reads 0 as soon as one device sends 0
WiredAnd(bits) == IF 0 \in bits THEN 0 ELSE 1

\* the two samples a reset takes with these devices on the line:
\* a presence pulse (low, then released), or the idle line
PresenceLevels(devs) == IF devs = {} THEN << 1, 1 >> ELSE << 0, 1 >>

-----------------------------------------------------------------------------
(* owb.c: reset *)

\* a slip in the presence test: || instead of &&
_reset_or(init, level1, level2) == init /\ ((level1 = 0) \/ (level2 = 1))

\* static bool _reset(bus): present = (level1 == 0) && (level2 == 1)
_reset(init, level1, level2) == init /\ (level1 = 0) /\ (level2 = 1)

-----------------------------------------------------------------------------
(* owb.c: _search *)

\* the cursor with its counters reset; the ROM code buffer is left as it is
ResetCursor(rom_code) ==
    [ rom_code |-> rom_code,
      last_discrepancy |-> 0,
      last_family_discrepancy |-> 0,
      last_device_flag |-> FALSE ]

\* nothing happened on the bus
NoObs ==
    [ entry_flag |-> FALSE,      \* _search was entered with last_device_flag set
      resets |-> 0,              \* bus resets issued
      levels |-> << 1, 1 >>,     \* the two samples of the reset
      cmd |-> << >>,             \* command bytes written
      bits |-> 0,                \* bit slots used (read or written)
      id_bit_number |-> 1,       \* _search's id_bit_number when the loop ended
      rom_byte_number |-> 0,     \* _search's rom_byte_number when the loop ended
      crc8 |-> 0,                \* _search's accumulated crc8
      last_zero |-> 0 ]          \* _search's last_zero

\* the locals of _search at loop entry
LoopInit(st) ==
    [ id_bit_number |-> 1,
      last_zero |-> 0,
      rom_byte_number |-> 0,
      rom_byte_mask |-> 1,
      search_direction |-> 0,
      crc8 |-> 0,
      rom_code |-> st.rom_code,
      last_family_discrepancy |-> st.last_family_discrepancy,
      bits |-> 0 ]

\* a slip: at the last discrepancy the 0 branch is taken again
SearchDirection_nobranch(L, last_discrepancy, id_bit, cmp_id_bit) ==
    IF id_bit # cmp_id_bit
    THEN id_bit
    ELSE IF L.id_bit_number < last_discrepancy
         THEN (L.rom_code[L.rom_byte_number + 1] \div L.rom_byte_mask) % 2
         ELSE 0

\* lines 284-294: the direction taken at a bit position, given the two bits read
SearchDirection(L, last_discrepancy, id_bit, cmp_id_bit) ==
    IF id_bit # cmp_id_bit
    THEN id_bit
    ELSE IF L.id_bit_number < last_discrepancy
         THEN (L.rom_code[L.rom_byte_number + 1] \div L.rom_byte_mask) % 2
         ELSE IF L.id_bit_number = last_discrepancy THEN 1 ELSE 0

\* a slip: the bit is set whatever the direction
StoreBit_set(byte, rom_byte_mask, search_direction) ==
    byte + (1 - ((byte \div rom_byte_mask) % 2)) * rom_byte_mask

\* lines 307-312: set or clear the bit rom_byte_mask in a ROM byte
StoreBit(byte, rom_byte_mask, search_direction) ==
    IF search_direction = 1
    THEN byte + (1 - ((byte \div rom_byte_mask) % 2)) * rom_byte_mask
    ELSE byte - ((byte \div rom_byte_mask) % 2) * rom_byte_mask

\* lines 317-328: count the bit, shift the mask, and at the end of a byte
\* accumulate the CRC and go to the next byte
AdvanceBit(L, search_direction, byte, mask) ==
    [ L EXCEPT !.id_bit_number = @ + 1,
               !.search_direction = search_direction,
               !.rom_code[L.rom_byte_number + 1] = byte,
               !.rom_byte_mask = IF mask = 0 THEN 1 ELSE mask,
               !.rom_byte_number = IF mask = 0 THEN @ + 1 ELSE @,
               !.crc8 = IF mask = 0 THEN _calc_crc(@, byte) ELSE @,
               !.bits = @ + 3 ]

\* a slip: last_family_discrepancy follows last_zero beyond the family byte
RecordZero_anybyte(L, zero_picked) ==
    IF zero_picked
    THEN [ L EXCEPT !.last_zero = L.id_bit_number,
                    !.last_family_discrepancy = L.id_bit_number ]
    ELSE L

\* a slip: the position is recorded at every bit, discrepancy or not
RecordZero_always(L, zero_picked) ==
    [ L EXCEPT !.last_zero = L.id_bit_number,
               !.last_family_discrepancy =
                   IF L.id_bit_number < 9 THEN L.id_bit_number ELSE @ ]

\* lines 296-304: a 0 picked at a discrepancy is recorded in last_zero, and in
\* last_family_discrepancy when it lies in the family byte
RecordZero(L, zero_picked) ==
    IF zero_picked
    THEN [ L EXCEPT !.last_zero = L.id_bit_number,
                    !.last_family_discrepancy =
                        IF L.id_bit_number < 9 THEN L.id_bit_number ELSE @ ]
    ELSE L

\* lines 296-328 for the direction chosen
TakeDirection(L, id_bit, cmp_id_bit, search_direction) ==
    AdvanceBit(RecordZero(L, (id_bit = cmp_id_bit) /\ (search_direction = 0)),
               search_direction,
               StoreBit(L.rom_code[L.rom_byte_number + 1], L.rom_byte_mask,
                        search_direction),
               (L.rom_byte_mask * 2) % 256)

\* one pass of the do-while body after the (1,1) test: lines 283-328
SearchBit(L, last_discrepancy, id_bit, cmp_id_bit) ==
    TakeDirection(L, id_bit, cmp_id_bit,
                  SearchDirection(L, last_discrepancy, id_bit, cmp_id_bit))

\* the devices that answer at position n: from position dropAt on (0: never)
\* no device answers any more
Answering(devs, n, dropAt) ==
    IF dropAt # 0 /\ n >= dropAt THEN {} ELSE devs

\* the devices that stay in the search after the direction was written at
\* position n: those whose bit equals it
StayingOn(devs, n, search_direction) ==
    { d \in devs : RomBit(d, n) = search_direction }

RECURSIVE SearchLoop(_, _, _, _)

\* do { ... } while (rom_byte_number < 8), against the devices still taking
\* part: read a bit and its complement (lines 274-276), leave on (1,1)
\* (lines 278-281), else take a direction and write it (lines 283-329);
\* the devices whose bit differs from the direction written drop out
SearchLoop(L, last_discrepancy, devs, dropAt) ==
    LET part == Answering(devs, L.id_bit_number, dropAt)
        id_bit == WiredAnd({ RomBit(d, L.id_bit_number) : d \in part })
        cmp_id_bit == WiredAnd({ 1 - RomBit(d, L.id_bit_number) : d \in part })
        L2 == SearchBit(L, last_discrepancy, id_bit, cmp_id_bit)
    IN  IF (id_bit = 1) /\ (cmp_id_bit = 1)
        THEN [ L EXCEPT !.bits = @ + 2 ]
        ELSE IF L2.rom_byte_number < 8
             THEN SearchLoop(L2, last_discrepancy,
                             StayingOn(part, L.id_bit_number, L2.search_direction),
                             dropAt)
             ELSE L2

\* a slip: the pass counts as successful whatever the accumulated CRC is
SearchSucceeded_nocrc(id_bit_number, crc8) == ~(id_bit_number < 65)

\* line 334: if (!((id_bit_number < 65) || (crc8 != 0)))
SearchSucceeded(id_bit_number, crc8) == ~((id_bit_number < 65) \/ (crc8 # 0))

\* a slip: the failed reset returns without touching the cursor
ResetFailed_keep(st) == st

\* lines 259-266: the reset found no presence pulse
ResetFailed(st) == ResetCursor(st.rom_code)

\* a variant: only an all-zero ROM code counts as "no device"
NoDevice_allzero(search_result, rom_code) ==
    ~search_result \/ (rom_code = ZeroRom)

\* line 348: if (!search_result || !state->rom_code[0])
NoDevice(search_result, rom_code) == ~search_result \/ (rom_code[1] = 0)

\* a slip: the exhausted flag is left set when the call finds nothing
SearchFinish_sticky(st, search_result) ==
    IF NoDevice(search_result, st.rom_code)
    THEN [ state |-> [ ResetCursor(st.rom_code) EXCEPT
                         !.last_device_flag = st.last_device_flag ],
           result |-> FALSE ]
    ELSE [ state |-> st, result |-> search_result ]

\* lines 347-356: reset the counters when no device was found
SearchFinish(st, search_result) ==
    IF NoDevice(search_result, st.rom_code)
    THEN [ state |-> ResetCursor(st.rom_code), result |-> FALSE ]
    ELSE [ state |-> st, result |-> search_result ]

\* what a pass that went through the loop did on the bus
PassObs(levels, L) ==
    [ entry_flag |-> FALSE, resets |-> 1, levels |-> levels,
      cmd |-> << OWB_ROM_SEARCH >>, bits |-> 8 + L.bits,
      id_bit_number |-> L.id_bit_number,
      rom_byte_number |-> L.rom_byte_number, crc8 |-> L.crc8,
      last_zero |-> L.last_zero ]

\* lines 333-344: on success set last_discrepancy and the exhausted flag
AfterLoop(st, L, ok) ==
    [ rom_code |-> L.rom_code,
      last_discrepancy |-> IF ok THEN L.last_zero ELSE st.last_discrepancy,
      last_family_discrepancy |-> L.last_family_discrepancy,
      last_device_flag |-> IF ok /\ L.last_zero = 0 THEN TRUE
                           ELSE st.last_device_flag ]

\* the cursor and the result _search returns, with what it did on the bus
SearchReturn(fin, o) == [ state |-> fin.state, result |-> fin.result, obs |-> o ]

\* lines 333-356 after the loop ended with locals L
SearchEnd(st, levels, L) ==
    SearchReturn(SearchFinish(AfterLoop(st, L, SearchSucceeded(L.id_bit_number, L.crc8)),
                              SearchSucceeded(L.id_bit_number, L.crc8)),
                 PassObs(levels, L))

\* static bool _search(bus, state), with the line's answers as inputs:
\* levels are the two samples of the reset, devs the devices answering the search
_search(init, st, devs, levels, dropAt) ==
    IF ~init
    THEN [ state |-> st, result |-> FALSE, obs |-> NoObs ]
    ELSE IF st.last_device_flag # FALSE
    THEN SearchReturn(SearchFinish(st, FALSE), [ NoObs EXCEPT !.entry_flag = TRUE ])
    ELSE IF ~_reset(init, levels[1], levels[2])
    THEN [ state |-> ResetFailed(st), result |-> FALSE,
           obs |-> [ NoObs EXCEPT !.resets = 1, !.levels = levels ] ]
    ELSE SearchEnd(st, levels,
                   SearchLoop(LoopInit(st), st.last_discrepancy, devs, dropAt))

\* bool owb_search_first(bus, state): clear the cursor, then search
search_first(init, st, devs, levels, dropAt) ==
    _search(init, ResetCursor(ZeroRom), devs, levels, dropAt)

\* bool owb_search_next(bus, state): search from the cursor as it is
search_next(init, st, devs, levels, dropAt) ==
    _search(init, st, devs, levels, dropAt)

-----------------------------------------------------------------------------
(* ds18b20.c: the sensor driver, against one DS18B20 on the line *)

OWB_ROM_MATCH == 85
OWB_ROM_SKIP == 204
DS18B20_FUNCTION_SCRATCHPAD_WRITE == 78
DS18B20_FUNCTION_SCRATCHPAD_READ == 190

\* enum DS18B20_RESOLUTION
DS18B20_RESOLUTION_INVALID == -1
DS18B20_RESOLUTION_9_BIT == 9
DS18B20_RESOLUTION_10_BIT == 10
DS18B20_RESOLUTION_11_BIT == 11
DS18B20_RESOLUTION_12_BIT == 12

\* sizeof(Scratchpad), and the count both resolution functions read:
\* offsetof(Scratchpad, configuration) - offsetof(Scratchpad, temperature) + 1
ScratchpadSize == 9
ThroughConfiguration == 5

\* something the master does on the line: k says what, v is the byte sent
\* (or the presence seen by a reset, or the number of bytes read)
Ev(k, v) == [ k |-> k, v |-> v ]

\* owb_write_bytes / _write_block: the bytes of buffer in order
WriteBytes(k, buffer) == [ i \in 1 .. Len(buffer) |-> Ev(k, buffer[i]) ]

\* the handle after ds18b20_malloc: zeroed
NoInfo ==
    [ init |-> FALSE, use_crc |-> FALSE, solo |-> FALSE,
      resolution |-> 0, rom_code |-> ZeroRom ]

\* static void _init(ds18b20_info, bus)
_init(info) ==
    [ init |-> TRUE, use_crc |-> FALSE, solo |-> FALSE,
      resolution |-> DS18B20_RESOLUTION_INVALID, rom_code |-> ZeroRom ]

\* static bool _is_init(ds18b20_info)
_is_init(info) == info.init

\* the two samples of a reset: the device answers it, or the line stays high
AnswerLevels(answers) == IF answers THEN << 0, 1 >> ELSE << 1, 1 >>

\* a slip: the solo flag is not looked at
_address_device_match(bus, info, answers) ==
    IF ~_is_init(info)
    THEN [ present |-> FALSE, wire |-> << >> ]
    ELSE IF ~_reset(bus, AnswerLevels(answers)[1], AnswerLevels(answers)[2])
    THEN [ present |-> FALSE, wire |-> << Ev("reset", 0) >> ]
    ELSE [ present |-> TRUE,
           wire |-> << Ev("reset", 1), Ev("rom", OWB_ROM_MATCH) >>
                    \o WriteBytes("address", info.rom_code) ]

\* static bool _address_device(ds18b20_info)
_address_device(bus, info, answers) ==
    IF ~_is_init(info)
    THEN [ present |-> FALSE, wire |-> << >> ]
    ELSE IF ~_reset(bus, AnswerLevels(answers)[1], AnswerLevels(answers)[2])
    THEN [ present |-> FALSE, wire |-> << Ev("reset", 0) >> ]
    ELSE IF info.solo
    THEN [ present |-> TRUE,
           wire |-> << Ev("reset", 1), Ev("rom", OWB_ROM_SKIP) >> ]
    ELSE [ present |-> TRUE,
           wire |-> << Ev("reset", 1), Ev("rom", OWB_ROM_MATCH) >>
                    \o WriteBytes("address", info.rom_code) ]

\* static bool _check_resolution(resolution)
_check_resolution(resolution) ==
    (resolution >= DS18B20_RESOLUTION_9_BIT)
        /\ (resolution <= DS18B20_RESOLUTION_12_BIT)

\* the first eight bytes of the device's scratchpad, as in struct Scratchpad
DeviceBytes(pad) ==
    << pad.temperature[1], pad.temperature[2], pad.trigger_high,
       pad.trigger_low, pad.configuration, 255, 12, 16 >>

\* byte i of the device's scratchpad: the ninth is the CRC of the eight before
DeviceByte(pad, i) ==
    IF i < ScratchpadSize
    THEN DeviceBytes(pad)[i]
    ELSE crc_fold(0, DeviceBytes(pad))

\* Scratchpad scratchpad = {0}
ZeroScratchpad == [ i \in 1 .. ScratchpadSize |-> 0 ]

\* _read_scratchpad once the device was addressed: the first count bytes
ReadAddressed(a, count, pad) ==
    IF a.present
    THEN [ scratchpad |-> [ i \in 1 .. ScratchpadSize |->
                              IF i <= count THEN DeviceByte(pad, i) ELSE 0 ],
           wire |-> a.wire \o << Ev("function", DS18B20_FUNCTION_SCRATCHPAD_READ),
                                 Ev("read", count) >> ]
    ELSE [ scratchpad |-> ZeroScratchpad, wire |-> a.wire ]

\* static Scratchpad _read_scratchpad(ds18b20_info, count)
_read_scratchpad(bus, info, count, answers, pad) ==
    ReadAddressed(_address_device(bus, info, answers),
                  IF count < ScratchpadSize THEN count ELSE ScratchpadSize, pad)

\* the device taking a Write Scratchpad: it keeps the triggers and bits 5-6 of
\* the configuration byte (bit 7 reads 0, bits 0-4 read 1); a write that does
\* not reach the device (stores = FALSE) changes nothing
DeviceWrite(pad, stores, scratchpad) ==
    IF stores
    THEN [ pad EXCEPT !.trigger_high = scratchpad[3],
                      !.trigger_low = scratchpad[4],
                      !.configuration = ((scratchpad[5] \div 32) % 4) * 32 + 31 ]
    ELSE pad

\* a slip: only the configuration byte is compared
WriteVerified_config(scratchpad, sent, pad, read) ==
    [ result |-> scratchpad[5] = read.scratchpad[5],
      wire |-> sent \o read.wire,
      pad |-> pad ]

\* lines 213-225: the readback compared with the three bytes written
WriteVerified(scratchpad, sent, pad, read) ==
    [ result |-> << scratchpad[3], scratchpad[4], scratchpad[5] >>
                    = << read.scratchpad[3], read.scratchpad[4], read.scratchpad[5] >>,
      wire |-> sent \o read.wire,
      pad |-> pad ]

\* lines 206-226: after _address_device
WriteAddressed(bus, info, scratchpad, verify, a, sent, answers, pad, written) ==
    IF ~a.present
    THEN [ result |-> FALSE, wire |-> a.wire, pad |-> pad ]
    ELSE IF ~verify
    THEN [ result |-> TRUE, wire |-> sent, pad |-> written ]
    ELSE WriteVerified(scratchpad, sent, written,
                       _read_scratchpad(bus, info, ThroughConfiguration,
                                        answers, written))

\* a slip: the configuration byte sent before the two triggers
_write_scratchpad_swapped(bus, info, scratchpad, verify, answers1, answers2, stores, pad) ==
    IF ~_is_init(info)
    THEN [ result |-> FALSE, wire |-> << >>, pad |-> pad ]
    ELSE WriteAddressed(bus, info, scratchpad, verify,
             _address_device(bus, info, answers1),
             _address_device(bus, info, answers1).wire
                 \o << Ev("function", DS18B20_FUNCTION_SCRATCHPAD_WRITE) >>
                 \o WriteBytes("write", << scratchpad[5], scratchpad[3],
                                           scratchpad[4] >>),
             answers2, pad, DeviceWrite(pad, stores, scratchpad))

\* static bool _write_scratchpad(ds18b20_info, scratchpad, verify);
\* answers1 is the presence at its own reset, answers2 at the readback's
_write_scratchpad(bus, info, scratchpad, verify, answers1, answers2, stores, pad) ==
    IF ~_is_init(info)
    THEN [ result |-> FALSE, wire |-> << >>, pad |-> pad ]
    ELSE WriteAddressed(bus, info, scratchpad, verify,
             _address_device(bus, info, answers1),
             _address_device(bus, info, answers1).wire
                 \o << Ev("function", DS18B20_FUNCTION_SCRATCHPAD_WRITE) >>
                 \o WriteBytes("write", << scratchpad[3], scratchpad[4],
                                           scratchpad[5] >>),
             answers2, pad, DeviceWrite(pad, stores, scratchpad))

\* line 353: resolution = ((scratchpad.configuration >> 5) & 0x03) + 9_BIT
read_resolution_decode(configuration) ==
    ((configuration \div 32) % 4) + DS18B20_RESOLUTION_9_BIT

\* lines 354-358: a decoded value out of range becomes the invalid sentinel
read_resolution_checked(resolution) ==
    IF ~_check_resolution(resolution)
    THEN DS18B20_RESOLUTION_INVALID
    ELSE resolution

\* DS18B20_RESOLUTION ds18b20_read_resolution(ds18b20_info)
ds18b20_read_resolution(bus, info, answers, pad) ==
    IF ~_is_init(info)
    THEN [ resolution |-> DS18B20_RESOLUTION_INVALID, wire |-> << >> ]
    ELSE [ resolution |->
               read_resolution_checked(read_resolution_decode(
                   _read_scratchpad(bus, info, ThroughConfiguration,
                                    answers, pad).scratchpad[5])),
           wire |-> _read_scratchpad(bus, info, ThroughConfiguration,
                                     answers, pad).wire ]

\* a slip: the requested resolution masked without the decrement
configuration_value_nodec(resolution) ==
    (resolution % 4) * 32 + 31

\* line 314: uint8_t value = (((resolution - 1) & 0x03) << 5) | 0x1f
configuration_value(resolution) ==
    ((resolution - 1) % 4) * 32 + 31

\* lines 326-330: the write failed, the cache is refreshed from the device
SetRefreshed(info, read, written, refreshed, value) ==
    [ result |-> FALSE,
      info |-> [ info EXCEPT !.resolution = refreshed.resolution ],
      pad |-> written.pad,
      wire |-> read.wire \o written.wire \o refreshed.wire,
      computed |-> TRUE, value |-> value ]

\* a slip: after a failed write the device is re-read but the cache is kept
SetWritten_keep(bus, info, resolution, answers, read, written, value) ==
    IF written.result
    THEN [ result |-> TRUE,
           info |-> [ info EXCEPT !.resolution = resolution ],
           pad |-> written.pad,
           wire |-> read.wire \o written.wire,
           computed |-> TRUE, value |-> value ]
    ELSE [ result |-> FALSE,
           info |-> info,
           pad |-> written.pad,
           wire |-> read.wire \o written.wire
                    \o ds18b20_read_resolution(bus, info, answers[4],
                                               written.pad).wire,
           computed |-> TRUE, value |-> value ]

\* lines 319-330: after _write_scratchpad
SetWritten(bus, info, resolution, answers, read, written, value) ==
    IF written.result
    THEN [ result |-> TRUE,
           info |-> [ info EXCEPT !.resolution = resolution ],
           pad |-> written.pad,
           wire |-> read.wire \o written.wire,
           computed |-> TRUE, value |-> value ]
    ELSE SetRefreshed(info, read, written,
                      ds18b20_read_resolution(bus, info, answers[4], written.pad),
                      value)

\* lines 309-319: after _read_scratchpad, patch the configuration byte and write
SetRead(bus, info, resolution, answers, stores, pad, read, value) ==
    SetWritten(bus, info, resolution, answers, read,
               _write_scratchpad(bus, info,
                                 [ read.scratchpad EXCEPT ![5] = value ],
                                 TRUE, answers[2], answers[3], stores, pad),
               value)

\* bool ds18b20_set_resolution(ds18b20_info, resolution); answers[i] is the
\* presence at the i-th reset the call makes
ds18b20_set_resolution(bus, info, resolution, answers, stores, pad) ==
    IF ~_is_init(info) \/ ~_check_resolution(info.resolution)
    THEN [ result |-> FALSE, info |-> info, pad |-> pad, wire |-> << >>,
           computed |-> FALSE, value |-> 0 ]
    ELSE SetRead(bus, info, resolution, answers, stores, pad,
                 _read_scratchpad(bus, info, ThroughConfiguration,
                                  answers[1], pad),
                 configuration_value(resolution))

\* lines 265-269 and 281-285: _init, then the address or the solo flag, then
\* the cache filled from the device
InitRead(info, read) ==
    [ info |-> [ info EXCEPT !.resolution = read.resolution ],
      wire |-> read.wire ]

\* void ds18b20_init(ds18b20_info, bus, rom_code)
ds18b20_init(bus, info, rom_code, answers, pad) ==
    InitRead([ _init(info) EXCEPT !.rom_code = rom_code ],
             ds18b20_read_resolution(bus, [ _init(info) EXCEPT !.rom_code = rom_code ],
                                     answers, pad))

\* void ds18b20_init_solo(ds18b20_info, bus)
ds18b20_init_solo(bus, info, answers, pad) ==
    InitRead([ _init(info) EXCEPT !.solo = TRUE ],
             ds18b20_read_resolution(bus, [ _init(info) EXCEPT !.solo = TRUE ],
                                     answers, pad))

-----------------------------------------------------------------------------
(* ds18b20.c: temperature decoding and conversion time *)

T_CONV == 750

RECURSIVE AndBits(_, _, _)
AndBits(a, b, k) ==
    IF k = 8 THEN 0
    ELSE (Bit(a, k) * Bit(b, k)) * (2 ^ k) + AndBits(a, b, k + 1)

\* a & b on uint8_t
And8(a, b) == AndBits(a, b, 0)

\* (int16_t)v for v in 0 .. 65535
Int16(v) == IF v >= 32768 THEN v - 65536 ELSE v

\* static const uint8_t lsb_mask[4] = { ~0x03, ~0x02, ~0x01, ~0x00 }
lsb_mask == << 252, 253, 254, 255 >>

\* a slip: the bytes combined without the conversion to int16_t
_decode_temp_unsigned(lsb, msb, resolution) ==
    IF _check_resolution(resolution)
    THEN msb * 256
         + And8(lsb_mask[resolution - DS18B20_RESOLUTION_9_BIT + 1], lsb)
    ELSE 0

\* static float _decode_temp(lsb, msb, resolution): the float returned is
\* raw / 16.0f, which is exact; the model keeps raw, the sixteenths of a degree
_decode_temp(lsb, msb, resolution) ==
    IF _check_resolution(resolution)
    THEN Int16(msb * 256
               + And8(lsb_mask[resolution - DS18B20_RESOLUTION_9_BIT + 1], lsb))
    ELSE 0

\* ceil(a / b) for positive a and b
Ceil(a, b) == (a + b - 1) \div b

\* a slip: the tick count rounded down
_wait_for_conversion_floor(resolution, tick) ==
    IF _check_resolution(resolution)
    THEN [ delayed |-> TRUE,
           ticks |-> T_CONV
                     \div ((2 ^ (DS18B20_RESOLUTION_12_BIT - resolution)) * tick) ]
    ELSE [ delayed |-> FALSE, ticks |-> 0 ]

\* static void _wait_for_conversion(resolution), with portTICK_PERIOD_MS = tick:
\* ticks = ceil((T_CONV / divisor) / tick), then vTaskDelay(ticks)
_wait_for_conversion(resolution, tick) ==
    IF _check_resolution(resolution)
    THEN [ delayed |-> TRUE,
           ticks |-> Ceil(T_CONV,
                          (2 ^ (DS18B20_RESOLUTION_12_BIT - resolution)) * tick) ]
    ELSE [ delayed |-> FALSE, ticks |-> 0 ]

\* void ds18b20_wait_for_conversion(ds18b20_info)
ds18b20_wait_for_conversion(info, tick) ==
    IF _is_init(info)
    THEN _wait_for_conversion(info.resolution, tick)
    ELSE [ delayed |-> FALSE, ticks |-> 0 ]

-----------------------------------------------------------------------------
(* ds18b20.c: conversion and temperature read *)

DS18B20_FUNCTION_TEMP_CONVERT == 68

\* void ds18b20_use_crc(ds18b20_info, use_crc)
ds18b20_use_crc(info, use_crc) ==
    IF _is_init(info)
    THEN [ info EXCEPT !.use_crc = use_crc ]
    ELSE info

\* a slip: the handle is not checked
ds18b20_convert_unchecked(bus, info, answers) ==
    [ result |-> _address_device(bus, [ info EXCEPT !.init = TRUE ], answers).present,
      wire |-> _address_device(bus, [ info EXCEPT !.init = TRUE ], answers).wire
               \o (IF _address_device(bus, [ info EXCEPT !.init = TRUE ],
                                      answers).present
                   THEN << Ev("function", DS18B20_FUNCTION_TEMP_CONVERT) >>
                   ELSE << >>) ]

\* bool ds18b20_convert(ds18b20_info)
ds18b20_convert(bus, info, answers) ==
    IF ~_is_init(info)
    THEN [ result |-> FALSE, wire |-> << >> ]
    ELSE IF _address_device(bus, info, answers).present
    THEN [ result |-> TRUE,
           wire |-> _address_device(bus, info, answers).wire
                    \o << Ev("function", DS18B20_FUNCTION_TEMP_CONVERT) >> ]
    ELSE [ result |-> FALSE,
           wire |-> _address_device(bus, info, answers).wire ]

\* a slip: the wait is the 9-bit conversion time
ds18b20_convert_all_short(bus, answers) ==
    << Ev("reset", IF _reset(bus, AnswerLevels(answers)[1],
                                  AnswerLevels(answers)[2]) THEN 1 ELSE 0),
       Ev("rom", OWB_ROM_SKIP),
       Ev("function", DS18B20_FUNCTION_TEMP_CONVERT),
       Ev("wait", DS18B20_RESOLUTION_9_BIT) >>

\* void ds18b20_convert_all(bus): the result of owb_reset is not looked at
ds18b20_convert_all(bus, answers) ==
    << Ev("reset", IF _reset(bus, AnswerLevels(answers)[1],
                                  AnswerLevels(answers)[2]) THEN 1 ELSE 0),
       Ev("rom", OWB_ROM_SKIP),
       Ev("function", DS18B20_FUNCTION_TEMP_CONVERT),
       Ev("wait", DS18B20_RESOLUTION_12_BIT) >>

\* uint8_t owb_crc8_bytes(crc, data, len): the CRC8 of the bytes of data,
\* starting from crc
owb_crc8_bytes(crc, data) == crc_fold(crc, data)

\* the nine bytes the master samples after Read Scratchpad: the device's, with
\* the bits of garble flipped in the first; or all ones when no device was
\* addressed and the line stays high
Sampled(pad, addressed, garble) ==
    IF addressed
    THEN [ i \in 1 .. ScratchpadSize |->
             IF i = 1 THEN Xor8(DeviceByte(pad, 1), garble)
             ELSE DeviceByte(pad, i) ]
    ELSE [ i \in 1 .. ScratchpadSize |-> 255 ]

\* a slip: the return value without the CRC branch, the two bytes always used
ReadDecoded_nocrc(info, sent, buffer, crc, reset) ==
    [ temp |-> _decode_temp(buffer[1], buffer[2], info.resolution),
      wire |-> sent \o << Ev("read", 1), Ev("read", 1), Ev("reset", reset) >>,
      read |-> TRUE, checked |-> FALSE, crc |-> 0,
      buffer |-> << buffer[1], buffer[2] >>,
      temp_LSB |-> buffer[1], temp_MSB |-> buffer[2] ]

\* lines 413-438: the bytes read without or with CRC, then decoded;
\* crc is owb_crc8_bytes(0, buffer, 9), reset the presence at the closing reset
ReadDecoded(info, sent, buffer, crc, reset) ==
    IF ~info.use_crc
    THEN [ temp |-> _decode_temp(buffer[1], buffer[2], info.resolution),
           wire |-> sent \o << Ev("read", 1), Ev("read", 1), Ev("reset", reset) >>,
           read |-> TRUE, checked |-> FALSE, crc |-> 0,
           buffer |-> << buffer[1], buffer[2] >>,
           temp_LSB |-> buffer[1], temp_MSB |-> buffer[2] ]
    ELSE IF crc # 0
    THEN [ temp |-> _decode_temp(0, 0, info.resolution),
           wire |-> sent \o << Ev("read", ScratchpadSize) >>,
           read |-> TRUE, checked |-> TRUE, crc |-> crc,
           buffer |-> buffer,
           temp_LSB |-> 0, temp_MSB |-> 0 ]
    ELSE [ temp |-> _decode_temp(buffer[1], buffer[2], info.resolution),
           wire |-> sent \o << Ev("read", ScratchpadSize) >>,
           read |-> TRUE, checked |-> TRUE, crc |-> crc,
           buffer |-> buffer,
           temp_LSB |-> buffer[1], temp_MSB |-> buffer[2] ]

\* lines 407-411: after the first _address_device answered a, the second one
\* (its result is dropped) and the Read Scratchpad command
ReadAddressedTwice(info, a, b, buffer, reset) ==
    IF ~a.present
    THEN [ temp |-> 0, wire |-> a.wire,
           read |-> FALSE, checked |-> FALSE, crc |-> 0, buffer |-> << >>,
           temp_LSB |-> 0, temp_MSB |-> 0 ]
    ELSE ReadDecoded(info,
                     a.wire \o b.wire
                         \o << Ev("function", DS18B20_FUNCTION_SCRATCHPAD_READ) >>,
                     buffer, owb_crc8_bytes(0, buffer), reset)

\* float ds18b20_read_temp(ds18b20_info), in sixteenths of a degree;
\* answers[i] is the presence at the i-th reset the call makes
ds18b20_read_temp(bus, info, answers, garble, pad) ==
    IF ~_is_init(info)
    THEN [ temp |-> 0, wire |-> << >>,
           read |-> FALSE, checked |-> FALSE, crc |-> 0, buffer |-> << >>,
           temp_LSB |-> 0, temp_MSB |-> 0 ]
    ELSE ReadAddressedTwice(info,
                            _address_device(bus, info, answers[1]),
                            _address_device(bus, info, answers[2]),
                            Sampled(pad, answers[2], garble),
                            IF answers[3] THEN 1 ELSE 0)

-----------------------------------------------------------------------------
(* ds18b20.c: convert, wait and read in one call *)

\* lines 455-459 once ds18b20_convert returned: the wait for the cached
\* resolution and the read follow a convert that succeeded
ConvertedThenRead(info, c, read) ==
    IF c.result
    THEN [ temp |-> read.temp,
           wire |-> c.wire \o << Ev("wait", info.resolution) >> \o read.wire ]
    ELSE [ temp |-> 0, wire |-> c.wire ]

\* float ds18b20_convert_and_read_temp(ds18b20_info); answers[1] is the
\* presence at the reset of the convert, answers[2..4] at those of the read
ds18b20_convert_and_read_temp(bus, info, answers, garble, pad) ==
    IF ~_is_init(info)
    THEN [ temp |-> 0, wire |-> << >> ]
    ELSE ConvertedThenRead(info,
             ds18b20_convert(bus, info, answers[1]),
             ds18b20_read_temp(bus, info,
                 << answers[2], answers[3], answers[4] >>, garble, pad))

-----------------------------------------------------------------------------
(* owb.c: the line seen from the GPIO pin *)

OWB_ROM_READ == 51

GPIO_MODE_INPUT == "input"
GPIO_MODE_OUTPUT == "output"

\* the pin before the master touched it: the pad as gpio_pad_select_gpio
\* leaves it, an input
PowerOnPin == [ direction |-> GPIO_MODE_INPUT, level |-> 0 ]

\* one call the master makes: gpio_set_direction(mode), gpio_set_level(level),
\* gpio_get_level() returning a, or _tick_delay of the timing field a
Call(f, a) == Ev(f, a)

\* the pin's mode and output level after the call c
gpio_call(pin, c) ==
    IF c.k = "gpio_set_direction" THEN [ pin EXCEPT !.direction = c.v ]
    ELSE IF c.k = "gpio_set_level" THEN [ pin EXCEPT !.level = c.v ]
    ELSE pin

\* the pin after the calls cs, in order
RECURSIVE PinAfter(_, _)
PinAfter(pin, cs) ==
    IF cs = << >> THEN pin
    ELSE PinAfter(gpio_call(pin, Head(cs)), Tail(cs))

\* nothing done on the pin
NoCalls(pin) == [ pin |-> pin, calls |-> << >> ]

\* b after a
Then(a, b) == [ pin |-> b.pin, calls |-> a.calls \o b.calls ]

\* lines 73-84 of _reset: level1 and level2 are what gpio_get_level returns
ResetCalls(level1, level2) ==
    << Call("gpio_set_direction", GPIO_MODE_OUTPUT), Call("_tick_delay", "G"),
       Call("gpio_set_level", 0), Call("_tick_delay", "H"),
       Call("gpio_set_level", 1), Call("_tick_delay", "I"),
       Call("gpio_set_direction", GPIO_MODE_INPUT),
       Call("gpio_get_level", level1), Call("_tick_delay", "J"),
       Call("gpio_get_level", level2) >>

\* static bool _reset(bus), on the pin
ResetOnPin(init, pin, level1, level2) ==
    IF init
    THEN [ pin |-> PinAfter(pin, ResetCalls(level1, level2)),
           calls |-> ResetCalls(level1, level2),
           present |-> _reset(init, level1, level2) ]
    ELSE [ pin |-> pin, calls |-> << >>, present |-> FALSE ]

\* lines 101-107 of _write_bit
WriteBitCalls(bit) ==
    << Call("gpio_set_direction", GPIO_MODE_OUTPUT),
       Call("gpio_set_level", 0),
       Call("_tick_delay", IF bit # 0 THEN "A" ELSE "C"),
       Call("gpio_set_level", 1),
       Call("_tick_delay", IF bit # 0 THEN "B" ELSE "D") >>

\* a slip: the line is not released at the end of the write slot
_write_bit_held(init, pin, bit) ==
    IF init
    THEN [ pin |-> PinAfter(pin, SubSeq(WriteBitCalls(bit), 1, 3)),
           calls |-> SubSeq(WriteBitCalls(bit), 1, 3) ]
    ELSE NoCalls(pin)

\* static void _write_bit(bus, bit)
_write_bit(init, pin, bit) ==
    IF init
    THEN [ pin |-> PinAfter(pin, WriteBitCalls(bit)), calls |-> WriteBitCalls(bit) ]
    ELSE NoCalls(pin)

\* lines 120-128 of _read_bit: level is what gpio_get_level returns
ReadBitCalls(level) ==
    << Call("gpio_set_direction", GPIO_MODE_OUTPUT),
       Call("gpio_set_level", 0), Call("_tick_delay", "A"),
       Call("gpio_set_level", 1), Call("_tick_delay", "E"),
       Call("gpio_set_direction", GPIO_MODE_INPUT),
       Call("gpio_get_level", level), Call("_tick_delay", "F") >>

\* static int _read_bit(bus)
_read_bit(init, pin, level) ==
    IF init
    THEN [ pin |-> PinAfter(pin, ReadBitCalls(level)),
           calls |-> ReadBitCalls(level),
           result |-> level % 2 ]
    ELSE [ pin |-> pin, calls |-> << >>, result |-> 0 ]

\* the loop of _write_byte from bit i on: data & 0x01 is written, data >>= 1;
\* d is what was done once this turn is over
RECURSIVE WriteByteLoop(_, _, _, _)
WriteByteLoop(init, done, data, i) ==
    IF i = 8 THEN done
    ELSE CHOOSE r \in { WriteByteLoop(init, d, data \div 2, i + 1) :
                           d \in { Then(done, _write_bit(init, done.pin, data % 2)) } } :
             TRUE

\* a slip: the most significant bit first
_write_byte_msb(init, pin, data) ==
    IF init
    THEN WriteByteLoop(init, NoCalls(pin),
                       Bit(data, 7) + 2 * Bit(data, 6) + 4 * Bit(data, 5)
                           + 8 * Bit(data, 4) + 16 * Bit(data, 3)
                           + 32 * Bit(data, 2) + 64 * Bit(data, 1)
                           + 128 * Bit(data, 0), 0)
    ELSE NoCalls(pin)

\* static void _write_byte(bus, data)
_write_byte(init, pin, data) ==
    IF init
    THEN WriteByteLoop(init, NoCalls(pin), data, 0)
    ELSE NoCalls(pin)

\* a | b on uint8_t
Or8(a, b) == a + b - And8(a, b)

\* one turn of the loop of _read_byte: result >>= 1, then |= 0x80 on a 1
ReadByteTurn(done, bit) ==
    [ pin |-> bit.pin, calls |-> done.calls \o bit.calls,
      result |-> IF bit.result # 0
                 THEN Or8(done.result \div 2, 128)
                 ELSE done.result \div 2 ]

\* the loop of _read_byte from bit i on; levels are the eight samples
RECURSIVE ReadByteLoop(_, _, _, _)
ReadByteLoop(init, done, levels, i) ==
    IF i = 8 THEN done
    ELSE CHOOSE r \in { ReadByteLoop(init, d, levels, i + 1) :
                           d \in { ReadByteTurn(done,
                                       _read_bit(init, done.pin, levels[i + 1])) } } :
             TRUE

\* static uint8_t _read_byte(bus)
_read_byte(init, pin, levels) ==
    IF init
    THEN ReadByteLoop(init, [ pin |-> pin, calls |-> << >>, result |-> 0 ],
                      levels, 0)
    ELSE [ pin |-> pin, calls |-> << >>, result |-> 0 ]

\* the eight samples of byte i (from 0) of a block
ByteLevels(levels, i) == SubSeq(levels, 8 * i + 1, 8 * i + 8)

\* one turn of the loop of _read_block: *buffer++ = _read_byte(bus)
ReadBlockTurn(done, byte) ==
    [ pin |-> byte.pin, calls |-> done.calls \o byte.calls,
      buffer |-> Append(done.buffer, byte.result) ]

RECURSIVE ReadBlockLoop(_, _, _, _, _)
ReadBlockLoop(init, done, levels, len, i) ==
    IF i = len THEN done
    ELSE CHOOSE r \in { ReadBlockLoop(init, d, levels, len, i + 1) :
                           d \in { ReadBlockTurn(done,
                                       _read_byte(init, done.pin,
                                                  ByteLevels(levels, i))) } } :
             TRUE

\* static uint8_t * _read_block(bus, buffer, len): the bytes left in buffer
_read_block(init, pin, levels, len) ==
    ReadBlockLoop(init, [ pin |-> pin, calls |-> << >>, buffer |-> << >> ],
                  levels, len, 0)

RECURSIVE WriteBlockLoop(_, _, _, _)
WriteBlockLoop(init, done, buffer, i) ==
    IF i = Len(buffer) THEN done
    ELSE CHOOSE r \in { WriteBlockLoop(init, d, buffer, i + 1) :
                           d \in { Then(done,
                                       _write_byte(init, done.pin, buffer[i + 1])) } } :
             TRUE

\* static const uint8_t * _write_block(bus, buffer, len)
_write_block(init, pin, buffer) == WriteBlockLoop(init, NoCalls(pin), buffer, 0)

\* void owb_use_crc(bus, use_crc): the flag of the bus afterwards
owb_use_crc(init, flag, use_crc) == IF init THEN use_crc ELSE flag

(* uint64_t as its eight bytes, the least significant first *)

Uint64Zero == [ j \in 1 .. 8 |-> 0 ]

\* (uint64_t)byte << (8 * i)
ShiftedLeft(byte, i) == [ j \in 1 .. 8 |-> IF j = i + 1 THEN byte ELSE 0 ]

\* a | b on uint64_t
Or64(a, b) == [ j \in 1 .. 8 |-> Or8(a[j], b[j]) ]

\* rom_code >> 8
ShiftedRight8(rom_code) ==
    [ j \in 1 .. 8 |-> IF j < 8 THEN rom_code[j + 1] ELSE 0 ]

\* lines 431-435 of owb_read_rom: for i = 7 down to 0,
\* rom_code |= (uint64_t)buffer[i] << (8 * i)
RECURSIVE PackRom(_, _, _)
PackRom(buffer, rom_code, i) ==
    IF i < 0 THEN rom_code
    ELSE PackRom(buffer, Or64(rom_code, ShiftedLeft(buffer[i + 1], i)), i - 1)

\* lines 437-454: the CRC over the eight bytes, looked at when use_crc is set
ReadRomChecked(use_crc, done, buffer, crc) ==
    [ rom_code |-> IF use_crc /\ crc # 0
                   THEN Uint64Zero
                   ELSE PackRom(buffer, Uint64Zero, 7),
      pin |-> done.pin, calls |-> done.calls, buffer |-> buffer,
      checked |-> use_crc, crc |-> IF use_crc THEN crc ELSE 0 ]

\* a slip: the CRC is looked at whatever use_crc says
ReadRomRead_always(use_crc, sent, block) ==
    ReadRomChecked(TRUE, Then(sent, block), block.buffer,
                   crc_fold(0, block.buffer))

\* lines 428-429 done: the command written, the eight bytes read
ReadRomRead(use_crc, sent, block) ==
    ReadRomChecked(use_crc, Then(sent, block), block.buffer,
                   crc_fold(0, block.buffer))

\* line 427 done: the command 0x33 written after the reset r
ReadRomSent(init, use_crc, sent, levels) ==
    ReadRomRead(use_crc, sent, _read_block(init, sent.pin, levels, 8))

\* lines 424-459 after the reset r
ReadRomReset(init, use_crc, r, levels) ==
    IF r.present
    THEN ReadRomSent(init, use_crc,
                     Then(r, _write_byte(init, r.pin, OWB_ROM_READ)), levels)
    ELSE [ rom_code |-> Uint64Zero, pin |-> r.pin, calls |-> r.calls,
           buffer |-> << >>, checked |-> FALSE, crc |-> 0 ]

\* uint64_t owb_read_rom(bus): level1 and level2 are the samples of the reset,
\* levels the 64 samples of the read slots
owb_read_rom(init, use_crc, pin, level1, level2, levels) ==
    IF init
    THEN ReadRomReset(init, use_crc,
                      ResetOnPin(init, pin, level1, level2), levels)
    ELSE [ rom_code |-> Uint64Zero, pin |-> pin, calls |-> << >>,
           buffer |-> << >>, checked |-> FALSE, crc |-> 0 ]

\* lines 492-497 of owb_write_rom_code: buffer[i] = rom_code & 0xFF,
\* rom_code >>= 8
RECURSIVE UnpackRom(_, _, _)
UnpackRom(rom_code, buffer, i) ==
    IF i = 8 THEN buffer
    ELSE UnpackRom(ShiftedRight8(rom_code),
                   Append(buffer, And8(rom_code[1], 255)), i + 1)

\* a slip: the most significant byte first
owb_write_rom_code_msb(init, pin, rom_code) ==
    _write_block(init, pin,
                 [ j \in 1 .. 8 |-> UnpackRom(rom_code, << >>, 0)[9 - j] ])

\* void owb_write_rom_code(bus, rom_code)
owb_write_rom_code(init, pin, rom_code) ==
    _write_block(init, pin, UnpackRom(rom_code, << >>, 0))

(* the pin after a call that is modelled byte by byte *)

\* the last thing done on the line by the trace w of a driver call
RECURSIVE LastSlot(_)
LastSlot(w) ==
    IF w = << >> THEN "none"
    ELSE IF w[Len(w)].k = "wait" THEN LastSlot(SubSeq(w, 1, Len(w) - 1))
    ELSE IF w[Len(w)].k = "reset" THEN "reset"
    ELSE IF w[Len(w)].k = "read" THEN "read"
    ELSE "write"

\* the last thing done on the line by a search pass: nothing, the reset, the
\* second read of a position answered (1,1), or the write of position 64
LastSearchSlot(o) ==
    IF o.resets = 0 THEN "none"
    ELSE IF o.cmd = << >> THEN "reset"
    ELSE IF (o.bits - 8) % 3 = 2 THEN "read"
    ELSE "write"

\* _reset, _write_bit and _read_bit each set the direction and the level, so
\* the pin after a sequence of them is the pin after the last
PinAfterSlot(init, pin, slot) ==
    IF slot = "reset" THEN ResetOnPin(init, pin, 1, 1).pin
    ELSE IF slot = "write" THEN _write_bit(init, pin, 1).pin
    ELSE IF slot = "read" THEN _read_bit(init, pin, 1).pin
    ELSE pin

\* the bits a device samples from the write slots cs (five calls each): a low
\* pulse of A is a 1, a low pulse of C is a 0
WrittenBits(cs) ==
    [ n \in 1 .. (Len(cs) \div 5) |->
        IF cs[5 * (n - 1) + 3] = Call("_tick_delay", "A") THEN 1 ELSE 0 ]

-----------------------------------------------------------------------------
(* the bus: initialisation, reset and search against a changing line *)

\* bit positions at which the devices may fall silent during a search pass
DropPositions == { 1, 40 }

\* what the line may do during one search call: the devices answer the reset and
\* every bit; or the reset sees no presence pulse; or the devices answer the
\* reset and fall silent from some bit position on
LineBehaviours(devs) ==
    { [ levels |-> PresenceLevels(devs), dropAt |-> 0 ],
      [ levels |-> << 1, 1 >>, dropAt |-> 0 ] }
    \cup { [ levels |-> PresenceLevels(devs), dropAt |-> k ] : k \in DropPositions }

\* no driver call was made yet
NoDrv ==
    [ requested |-> 0,          \* the resolution asked for
      init |-> FALSE,           \* ds18b20_info->init at entry
      resolution |-> 0,         \* ds18b20_info->resolution at entry
      computed |-> FALSE,       \* ds18b20_set_resolution got to line 314
      value |-> 0 ]             \* its configuration value

\* the scratchpad of a DS18B20 at power-on: 85 degrees, 12 bits
PowerOnPad ==
    [ temperature |-> << 80, 5 >>, trigger_high |-> 75, trigger_low |-> 70,
      configuration |-> 127 ]

\* nothing was computed yet
NoCalc ==
    [ f |-> "none",
      lsb |-> 0, msb |-> 0,     \* _decode_temp's temperature bytes
      resolution |-> 0,         \* the resolution decoded or waited for
      init |-> FALSE,           \* ds18b20_info->init
      tick |-> 0,               \* portTICK_PERIOD_MS
      delayed |-> FALSE,        \* vTaskDelay was called
      result |-> 0,             \* sixteenths of a degree, or ticks
      read |-> FALSE,           \* ds18b20_read_temp got to read the device
      checked |-> FALSE,        \* owb_crc8_bytes was called
      crc |-> 0,                \* its result
      buffer |-> << >> ]        \* the bytes read from the device

InitCommon ==
    /\ state = ResetCursor(ZeroRom)
    /\ op = "none"
    /\ ret = FALSE
    /\ obs = NoObs
    /\ calls = 0
    /\ device_rom_codes = << >>
    /\ crc_acc = 0
    /\ crc_len = 0
    /\ crc_chk = 0
    /\ ds18b20_info = NoInfo
    /\ wire = << >>
    /\ drv = NoDrv
    /\ calc = NoCalc
    /\ gpio = PowerOnPin
    /\ bus_use_crc = FALSE

\* after owb_malloc: the bus structure is zeroed; the line carries some devices
Init ==
    /\ bus_init = FALSE
    /\ attached \in { s \in SUBSET LineRoms : Cardinality(s) <= MaxAttached }
    /\ device = PowerOnPad
    /\ InitCommon

\* void owb_init(bus, gpio)
owb_init ==
    /\ ~bus_init
    /\ bus_init' = TRUE
    /\ op' = "owb_init"
    /\ UNCHANGED pinVars
    /\ UNCHANGED << state, attached, ret, obs, calls, device_rom_codes >>
    /\ UNCHANGED crcVars
    /\ UNCHANGED calcVars
    /\ UNCHANGED devVars

\* bool owb_reset(bus)
owb_reset ==
    /\ \E level1 \in { 0, 1 }, level2 \in { 0, 1 } :
          /\ ret' = _reset(bus_init, level1, level2)
          /\ obs' = [ NoObs EXCEPT !.resets = IF bus_init THEN 1 ELSE 0,
                                   !.levels = << level1, level2 >> ]
    /\ op' = "owb_reset"
    /\ gpio' = PinAfterSlot(bus_init, gpio, "reset")
    /\ UNCHANGED bus_use_crc
    /\ UNCHANGED << bus_init, state, attached, calls, device_rom_codes >>
    /\ UNCHANGED crcVars
    /\ UNCHANGED calcVars
    /\ UNCHANGED devVars

\* bool owb_search_first(bus, state)
owb_search_first ==
    /\ \E line \in LineBehaviours(attached) :
          \E r \in { search_first(bus_init, state, attached,
                                  line.levels, line.dropAt) } :
              /\ state' = r.state
              /\ ret' = r.result
              /\ obs' = r.obs
    /\ op' = "owb_search_first"
    /\ gpio' = PinAfterSlot(bus_init, gpio, LastSearchSlot(obs'))
    /\ UNCHANGED bus_use_crc
    /\ UNCHANGED << bus_init, attached, calls, device_rom_codes >>
    /\ UNCHANGED crcVars
    /\ UNCHANGED calcVars
    /\ UNCHANGED devVars

\* bool owb_search_next(bus, state)
owb_search_next ==
    /\ \E line \in LineBehaviours(attached) :
          \E r \in { search_next(bus_init, state, attached,
                                 line.levels, line.dropAt) } :
              /\ state' = r.state
              /\ ret' = r.result
              /\ obs' = r.obs
    /\ op' = "owb_search_next"
    /\ gpio' = PinAfterSlot(bus_init, gpio, LastSearchSlot(obs'))
    /\ UNCHANGED bus_use_crc
    /\ UNCHANGED << bus_init, attached, calls, device_rom_codes >>
    /\ UNCHANGED crcVars
    /\ UNCHANGED calcVars
    /\ UNCHANGED devVars

Next ==
    \/ owb_init
    \/ owb_reset
    \/ owb_search_first
    \/ owb_search_next

Spec == Init /\ [][Next]_vars

-----------------------------------------------------------------------------
(* the enumeration loop of app_main on a line whose devices stay put *)

\* after owb_init, with between one and MaxEnumDevices CRC-valid devices attached
InitEnum ==
    /\ bus_init = TRUE
    /\ attached \in { s \in SUBSET ValidRoms :
                        s # {} /\ Cardinality(s) <= MaxEnumDevices }
    /\ device = PowerOnPad
    /\ InitCommon

\* bool found = owb_search_first(owb, &search_state), and the loop body
\* recording the code when one was found
app_search_first ==
    /\ \E r \in { search_first(bus_init, state, attached,
                               PresenceLevels(attached), 0) } :
           /\ state' = r.state
           /\ ret' = r.result
           /\ obs' = r.obs
           /\ device_rom_codes' = IF r.result THEN << r.state.rom_code >>
                                  ELSE << >>
    /\ calls' = 1
    /\ op' = "owb_search_first"
    /\ gpio' = PinAfterSlot(bus_init, gpio, LastSearchSlot(obs'))
    /\ UNCHANGED bus_use_crc
    /\ UNCHANGED << bus_init, attached >>
    /\ UNCHANGED crcVars
    /\ UNCHANGED calcVars
    /\ UNCHANGED devVars

\* found = owb_search_next(owb, &search_state), and the loop body
app_search_next ==
    /\ calls >= 1
    /\ calls < MaxCalls
    /\ \E r \in { search_next(bus_init, state, attached,
                              PresenceLevels(attached), 0) } :
           /\ state' = r.state
           /\ ret' = r.result
           /\ obs' = r.obs
           /\ device_rom_codes' = IF r.result
                                  THEN Append(device_rom_codes, r.state.rom_code)
                                  ELSE device_rom_codes
    /\ calls' = calls + 1
    /\ op' = "owb_search_next"
    /\ gpio' = PinAfterSlot(bus_init, gpio, LastSearchSlot(obs'))
    /\ UNCHANGED bus_use_crc
    /\ UNCHANGED << bus_init, attached >>
    /\ UNCHANGED crcVars
    /\ UNCHANGED calcVars
    /\ UNCHANGED devVars

NextEnum ==
    \/ app_search_first
    \/ app_search_next

SpecEnum == InitEnum /\ [][NextEnum]_vars

-----------------------------------------------------------------------------
(* the CRC8 accumulator fed one byte at a time *)

InitCrc ==
    /\ bus_init = FALSE
    /\ attached = {}
    /\ device = PowerOnPad
    /\ InitCommon

\* crc = owb_crc8(crc, data) for one more byte of the sequence,
\* then the accumulated CRC appended as the sequence's own CRC byte
crc_feed ==
    /\ crc_len < MaxCrcLen
    /\ \E data \in Byte :
          \E crc \in { crc_fold(crc_acc, << data >>) } :
              /\ crc_acc' = crc
              /\ crc_chk' = crc_fold(crc_acc, << data, crc >>)
    /\ crc_len' = crc_len + 1
    /\ UNCHANGED pinVars
    /\ UNCHANGED busVars
    /\ UNCHANGED calcVars
    /\ UNCHANGED devVars

NextCrc == crc_feed

SpecCrc == InitCrc /\ [][NextCrc]_vars


-----------------------------------------------------------------------------
(* the sensor driver against one DS18B20 (DevA) on an initialised bus *)

\* the configuration bytes a DS18B20 can hold: 9, 10, 11 and 12 bits
DeviceConfigurations == { 31, 63, 95, 127 }

\* the values ds18b20_set_resolution is called with: the enum's and others
RequestedResolutions ==
    { DS18B20_RESOLUTION_INVALID, 0, 8, 13,
      DS18B20_RESOLUTION_9_BIT, DS18B20_RESOLUTION_10_BIT,
      DS18B20_RESOLUTION_11_BIT, DS18B20_RESOLUTION_12_BIT }

\* after owb_init and ds18b20_malloc, the device in any resolution
InitDev ==
    /\ bus_init = TRUE
    /\ attached = { DevA }
    /\ device \in { [ PowerOnPad EXCEPT !.configuration = c ] :
                      c \in DeviceConfigurations }
    /\ InitCommon

\* ds18b20_init(ds18b20_info, owb, rom_code)
init_device ==
    /\ \E answers \in BOOLEAN :
          \E r \in { ds18b20_init(bus_init, ds18b20_info, DevA, answers, device) } :
              /\ ds18b20_info' = r.info
              /\ wire' = r.wire
    /\ op' = "ds18b20_init"
    /\ ret' = FALSE
    /\ drv' = [ NoDrv EXCEPT !.init = ds18b20_info.init,
                             !.resolution = ds18b20_info.resolution ]
    /\ gpio' = PinAfterSlot(bus_init, gpio, LastSlot(wire'))
    /\ UNCHANGED bus_use_crc
    /\ UNCHANGED << bus_init, state, attached, obs, calls, device_rom_codes, device >>
    /\ UNCHANGED crcVars
    /\ UNCHANGED calcVars

\* ds18b20_init_solo(ds18b20_info, owb)
init_solo_device ==
    /\ \E answers \in BOOLEAN :
          \E r \in { ds18b20_init_solo(bus_init, ds18b20_info, answers, device) } :
              /\ ds18b20_info' = r.info
              /\ wire' = r.wire
    /\ op' = "ds18b20_init_solo"
    /\ ret' = FALSE
    /\ drv' = [ NoDrv EXCEPT !.init = ds18b20_info.init,
                             !.resolution = ds18b20_info.resolution ]
    /\ gpio' = PinAfterSlot(bus_init, gpio, LastSlot(wire'))
    /\ UNCHANGED bus_use_crc
    /\ UNCHANGED << bus_init, state, attached, obs, calls, device_rom_codes, device >>
    /\ UNCHANGED crcVars
    /\ UNCHANGED calcVars

\* bool ds18b20_set_resolution(ds18b20_info, resolution)
set_resolution ==
    /\ \E resolution \in RequestedResolutions, stores \in BOOLEAN,
          answers \in [ 1 .. 4 -> BOOLEAN ] :
          \E r \in { ds18b20_set_resolution(bus_init, ds18b20_info, resolution,
                                            answers, stores, device) } :
              /\ ds18b20_info' = r.info
              /\ device' = r.pad
              /\ wire' = r.wire
              /\ ret' = r.result
              /\ drv' = [ requested |-> resolution,
                          init |-> ds18b20_info.init,
                          resolution |-> ds18b20_info.resolution,
                          computed |-> r.computed,
                          value |-> r.value ]
    /\ op' = "ds18b20_set_resolution"
    /\ gpio' = PinAfterSlot(bus_init, gpio, LastSlot(wire'))
    /\ UNCHANGED bus_use_crc
    /\ UNCHANGED << bus_init, state, attached, obs, calls, device_rom_codes >>
    /\ UNCHANGED crcVars
    /\ UNCHANGED calcVars

\* DS18B20_RESOLUTION ds18b20_read_resolution(ds18b20_info)
read_resolution ==
    /\ \E answers \in BOOLEAN :
          \E r \in { ds18b20_read_resolution(bus_init, ds18b20_info,
                                             answers, device) } :
              /\ ret' = r.resolution
              /\ wire' = r.wire
    /\ op' = "ds18b20_read_resolution"
    /\ drv' = [ NoDrv EXCEPT !.init = ds18b20_info.init,
                             !.resolution = ds18b20_info.resolution ]
    /\ gpio' = PinAfterSlot(bus_init, gpio, LastSlot(wire'))
    /\ UNCHANGED bus_use_crc
    /\ UNCHANGED << bus_init, state, attached, obs, calls, device_rom_codes,
                    ds18b20_info, device >>
    /\ UNCHANGED crcVars
    /\ UNCHANGED calcVars

NextDev ==
    \/ init_device
    \/ init_solo_device
    \/ set_resolution
    \/ read_resolution

SpecDev == InitDev /\ [][NextDev]_vars

-----------------------------------------------------------------------------
(* the driver's computations over their arguments *)

\* the MSBs decoded: both signs, the sign boundary and the device's range
TempMsbs == { 0, 1, 5, 7, 127, 128, 248, 252, 255 }

\* the resolutions a handle can hold when a temperature is decoded or waited for
HeldResolutions == RequestedResolutions

\* each run computes once, on arguments drawn from the sets above
InitCalc ==
    /\ bus_init = FALSE
    /\ attached = {}
    /\ device = PowerOnPad
    /\ InitCommon

\* temp = _decode_temp(temp_LSB, temp_MSB, ds18b20_info->resolution)
decode_temp ==
    /\ calc.f = "none"
    /\ \E lsb \in Byte, msb \in TempMsbs, resolution \in HeldResolutions :
          calc' = [ NoCalc EXCEPT !.f = "_decode_temp",
                                  !.lsb = lsb, !.msb = msb,
                                  !.resolution = resolution,
                                  !.result = _decode_temp(lsb, msb, resolution) ]
    /\ UNCHANGED pinVars
    /\ UNCHANGED busVars
    /\ UNCHANGED crcVars
    /\ UNCHANGED devVars

\* ds18b20_wait_for_conversion(ds18b20_info) on a build whose tick period is
\* tick milliseconds
wait_for_conversion ==
    /\ calc.f = "none"
    /\ \E init \in BOOLEAN, resolution \in HeldResolutions,
          tick \in 1 .. MaxTickPeriod :
          \E w \in { ds18b20_wait_for_conversion(
                         [ NoInfo EXCEPT !.init = init,
                                         !.resolution = resolution ], tick) } :
              calc' = [ NoCalc EXCEPT !.f = "ds18b20_wait_for_conversion",
                                      !.init = init,
                                      !.resolution = resolution,
                                      !.tick = tick,
                                      !.delayed = w.delayed,
                                      !.result = w.ticks ]
    /\ UNCHANGED pinVars
    /\ UNCHANGED busVars
    /\ UNCHANGED crcVars
    /\ UNCHANGED devVars

NextCalc ==
    \/ decode_temp
    \/ wait_for_conversion

SpecCalc == InitCalc /\ [][NextCalc]_vars

-----------------------------------------------------------------------------
(* conversions and temperature reads against one DS18B20 (DevA) *)

\* the temperature registers the device may hold: 85, 0 and -0.5 degrees
DeviceTemperatures == { << 80, 5 >>, << 0, 0 >>, << 248, 255 >> }

\* bit errors on the line while the first scratchpad byte is read: none, or
\* its lowest bit flipped
Garbles == { 0, 1 }

\* after owb_init and ds18b20_malloc, the device at 9 or 12 bits
InitTemp ==
    /\ bus_init = TRUE
    /\ attached = { DevA }
    /\ device \in { [ PowerOnPad EXCEPT !.temperature = t, !.configuration = c ] :
                      t \in DeviceTemperatures, c \in { 31, 127 } }
    /\ InitCommon

\* ds18b20_use_crc(ds18b20_info, use_crc)
use_crc ==
    /\ \E enable \in BOOLEAN :
          ds18b20_info' = ds18b20_use_crc(ds18b20_info, enable)
    /\ op' = "ds18b20_use_crc"
    /\ ret' = FALSE
    /\ wire' = << >>
    /\ drv' = [ NoDrv EXCEPT !.init = ds18b20_info.init,
                             !.resolution = ds18b20_info.resolution ]
    /\ UNCHANGED pinVars
    /\ UNCHANGED << bus_init, state, attached, obs, calls, device_rom_codes, device >>
    /\ UNCHANGED crcVars
    /\ UNCHANGED calcVars

\* bool ds18b20_convert(ds18b20_info)
convert ==
    /\ \E answers \in BOOLEAN :
          \E r \in { ds18b20_convert(bus_init, ds18b20_info, answers) } :
              /\ ret' = r.result
              /\ wire' = r.wire
    /\ op' = "ds18b20_convert"
    /\ drv' = [ NoDrv EXCEPT !.init = ds18b20_info.init,
                             !.resolution = ds18b20_info.resolution ]
    /\ gpio' = PinAfterSlot(bus_init, gpio, LastSlot(wire'))
    /\ UNCHANGED bus_use_crc
    /\ UNCHANGED << bus_init, state, attached, obs, calls, device_rom_codes,
                    ds18b20_info, device >>
    /\ UNCHANGED crcVars
    /\ UNCHANGED calcVars

\* void ds18b20_convert_all(owb)
convert_all ==
    /\ \E answers \in BOOLEAN :
          wire' = ds18b20_convert_all(bus_init, answers)
    /\ op' = "ds18b20_convert_all"
    /\ ret' = FALSE
    /\ drv' = [ NoDrv EXCEPT !.init = ds18b20_info.init,
                             !.resolution = ds18b20_info.resolution ]
    /\ gpio' = PinAfterSlot(bus_init, gpio, LastSlot(wire'))
    /\ UNCHANGED bus_use_crc
    /\ UNCHANGED << bus_init, state, attached, obs, calls, device_rom_codes,
                    ds18b20_info, device >>
    /\ UNCHANGED crcVars
    /\ UNCHANGED calcVars

\* float temp = ds18b20_read_temp(ds18b20_info)
read_temp ==
    /\ \E answers \in [ 1 .. 3 -> BOOLEAN ], garble \in Garbles :
          \E r \in { ds18b20_read_temp(bus_init, ds18b20_info, answers,
                                       garble, device) } :
              /\ ret' = r.temp
              /\ wire' = r.wire
              /\ calc' = [ NoCalc EXCEPT !.f = "ds18b20_read_temp",
                                         !.lsb = r.temp_LSB,
                                         !.msb = r.temp_MSB,
                                         !.resolution = ds18b20_info.resolution,
                                         !.init = ds18b20_info.init,
                                         !.result = r.temp,
                                         !.read = r.read,
                                         !.checked = r.checked,
                                         !.crc = r.crc,
                                         !.buffer = r.buffer ]
    /\ op' = "ds18b20_read_temp"
    /\ drv' = [ NoDrv EXCEPT !.init = ds18b20_info.init,
                             !.resolution = ds18b20_info.resolution ]
    /\ gpio' = PinAfterSlot(bus_init, gpio, LastSlot(wire'))
    /\ UNCHANGED bus_use_crc
    /\ UNCHANGED << bus_init, state, attached, obs, calls, device_rom_codes,
                    ds18b20_info, device >>
    /\ UNCHANGED crcVars

NextTemp ==
    \/ init_device
    \/ init_solo_device
    \/ use_crc
    \/ convert
    \/ convert_all
    \/ read_temp

SpecTemp == InitTemp /\ [][NextTemp]_vars

-----------------------------------------------------------------------------
(* properties of the search *)

Range(s) == { s[i] : i \in 1 .. Len(s) }

SearchOps == { "owb_search_first", "owb_search_next" }

CursorIsReset ==
    /\ state.last_discrepancy = 0
    /\ state.last_family_discrepancy = 0
    /\ state.last_device_flag = FALSE

\* the enumeration property of C1 for the devices on the line: the first N calls
\* return true with N distinct codes of attached devices, call N+1 returns false
\* with exactly the attached codes collected
EnumeratesAttached ==
    LET N == Cardinality(attached)
    IN  /\ (calls \in 1 .. N) =>
              /\ ret = TRUE
              /\ Len(device_rom_codes) = calls
              /\ Cardinality(Range(device_rom_codes)) = calls
              /\ Range(device_rom_codes) \subseteq attached
              /\ state.rom_code = device_rom_codes[calls]
        /\ (calls = N + 1) =>
              /\ ret = FALSE
              /\ Len(device_rom_codes) = N
              /\ Range(device_rom_codes) = attached

\* C1 as stated: on a line with N >= 1 permanently attached devices with pairwise
\* distinct CRC-valid ROM codes, owb_search_first and the owb_search_next calls
\* after it return true exactly N times, leaving the N attached codes, and call
\* N+1 returns false; this holds again after every later owb_search_first.
C1_AnyValidRoms == EnumeratesAttached

\* C1 amended: the same, for devices whose family byte (byte 0) is not zero.
C1_NonZeroFamily ==
    (\A d \in attached : d[1] # 0) => EnumeratesAttached

\* an enumeration of MaxEnumDevices devices ran to its end
C1_Witness ==
    /\ Cardinality(attached) = MaxEnumDevices
    /\ \A d \in attached : d[1] # 0
    /\ calls = MaxEnumDevices + 1
    /\ ret = FALSE
    /\ Range(device_rom_codes) = attached
    /\ obs.entry_flag

\* C2: whenever owb_search_first or owb_search_next returns true, the CRC8
\* accumulated from 0 over the eight bytes of state->rom_code is 0.
C2_FoundRomCrcZero ==
    (op \in SearchOps /\ ret = TRUE) => crc_fold(0, state.rom_code) = 0

\* a search on a line that carries a corrupted code found a device
C2_Witness ==
    /\ op = "owb_search_next"
    /\ ret = TRUE
    /\ DevBad \in attached
    /\ state.rom_code # DevBad

\* C3: every search call that returns false (no presence pulse, a (1,1) pair at
\* some bit position, a non-zero CRC8, a zero ROM code) leaves the cursor with
\* last_discrepancy = 0, last_family_discrepancy = 0, last_device_flag = false.
C3_FailureResetsCursor ==
    (op \in SearchOps /\ ret = FALSE) => CursorIsReset

\* an owb_search_next pass walked past a discrepancy inside the family byte and
\* then failed: on a (1,1) pair at a later position or on the CRC
C3_Witness ==
    /\ op = "owb_search_next"
    /\ ret = FALSE
    /\ obs.resets = 1
    /\ obs.last_zero \in 1 .. 8
    /\ (obs.id_bit_number = 40 \/ obs.crc8 # 0)

\* a pass read all 64 bits and accumulated a CRC8 of zero
PassComplete ==
    /\ op \in SearchOps
    /\ obs.resets = 1
    /\ obs.id_bit_number = 65
    /\ obs.crc8 = 0

\* C4 as stated: a pass that completes all 64 bits with CRC8 0 is reported as
\* "no device found" only when all eight bytes of the ROM code are zero.
C4_OnlyAllZeroRejected ==
    (PassComplete /\ ret = FALSE) => state.rom_code = ZeroRom

\* C4 amended: such a pass is reported as "no device found" exactly when the
\* family byte (byte 0) of the ROM code is zero, whatever the other seven bytes.
C4_ZeroFamilyRejected ==
    PassComplete => (ret = FALSE <=> state.rom_code[1] = 0)

\* a complete, CRC-valid pass over a code with a non-zero serial number failed
C4_Witness ==
    /\ PassComplete
    /\ ret = FALSE
    /\ state.rom_code = DevZ

\* C5 as stated: after the call that signalled exhaustion (entered with the
\* exhausted flag set, returned false) a further owb_search_next returns no device.
C5_StaysExhausted ==
    [][ (obs.entry_flag /\ calls' = calls + 1) => ret' = FALSE ]_vars

\* C5 amended: after the call that signalled exhaustion the cursor is reset, and
\* the next owb_search_next restarts the enumeration: on the unchanged line it
\* returns the first device again, without owb_search_first.
C5_NextRestarts ==
    [][ (obs.entry_flag /\ calls' = calls + 1) =>
            /\ ret' = TRUE
            /\ state'.rom_code = device_rom_codes[1]
            /\ device_rom_codes' = Append(device_rom_codes, device_rom_codes[1])
      ]_vars

\* owb_search_next returned the first device again after exhaustion
C5_Witness ==
    /\ Cardinality(attached) >= 2
    /\ calls = Cardinality(attached) + 2
    /\ op = "owb_search_next"
    /\ ret = TRUE
    /\ Len(device_rom_codes) = Cardinality(attached) + 1
    /\ state.rom_code = device_rom_codes[1]

\* C6: a search call entered with last_device_flag set resets the cursor,
\* performs no bus reset and no bit transfer, and returns false.
C6_ExhaustedCallResets ==
    obs.entry_flag =>
        /\ op = "owb_search_next"
        /\ CursorIsReset
        /\ obs.resets = 0
        /\ obs.bits = 0
        /\ obs.cmd = << >>
        /\ ret = FALSE

\* owb_search_next was entered with the flag set, after a device that was found
C6_Witness ==
    /\ obs.entry_flag
    /\ op = "owb_search_next"
    /\ state.rom_code \in attached
    /\ ret = FALSE

\* C7: on an initialised bus owb_reset returns true iff the first sample reads 0
\* and the second reads 1: (0,1) gives true; (1,1), (0,0) and (1,0) give false.
C7_ResetPresence ==
    (op = "owb_reset" /\ bus_init) =>
        /\ (obs.levels = << 0, 1 >> => ret = TRUE)
        /\ (obs.levels = << 1, 1 >> => ret = FALSE)
        /\ (obs.levels = << 0, 0 >> => ret = FALSE)
        /\ (obs.levels = << 1, 0 >> => ret = FALSE)

\* a reset on the initialised bus saw a presence pulse
C7_Witness ==
    /\ op = "owb_reset"
    /\ bus_init
    /\ obs.levels = << 0, 1 >>
    /\ ret = TRUE

\* C8: for every byte sequence d, the CRC8 folded from 0 over d and then over the
\* resulting CRC byte is 0.
C8_CrcOfOwnCrcIsZero == crc_chk = 0

\* a sequence of MaxCrcLen bytes with a non-zero CRC8 was checked
C8_Witness ==
    /\ crc_len = MaxCrcLen
    /\ crc_acc # 0
    /\ crc_chk = 0

\* the last call wrote to the device's scratchpad
ScratchpadWritten ==
    \E i \in 1 .. Len(wire) :
        wire[i] = Ev("function", DS18B20_FUNCTION_SCRATCHPAD_WRITE)

\* C9: for every resolution r in 9..12 the configuration byte that
\* ds18b20_set_resolution computes is ((r - 9) << 5) | 0x1F, and decoding it
\* as ds18b20_read_resolution does gives r back
C9_ConfigurationRoundTrip ==
    (op = "ds18b20_set_resolution" /\ drv.computed /\ drv.requested \in 9 .. 12)
        => /\ drv.value = (drv.requested - 9) * 32 + 31
           /\ read_resolution_decode(drv.value) = drv.requested

C9_Witness ==
    /\ op = "ds18b20_set_resolution"
    /\ drv.computed
    /\ drv.requested = 11
    /\ drv.value = 95
    /\ ret = TRUE

\* C10: ds18b20_set_resolution on an initialised device with a requested
\* resolution outside 9..12 returns false, writes nothing to the scratchpad
\* and leaves the cached resolution as it was
C10_OutOfRangeRejected ==
    (op = "ds18b20_set_resolution" /\ drv.init /\ drv.requested \notin 9 .. 12)
        => /\ ret = FALSE
           /\ ~ScratchpadWritten
           /\ ds18b20_info.resolution = drv.resolution

\* the values the cached resolution is specified to take
CachedResolutions ==
    { DS18B20_RESOLUTION_9_BIT, DS18B20_RESOLUTION_10_BIT,
      DS18B20_RESOLUTION_11_BIT, DS18B20_RESOLUTION_12_BIT,
      DS18B20_RESOLUTION_INVALID }

\* C11: whatever sequence of ds18b20_init, ds18b20_init_solo,
\* ds18b20_set_resolution and ds18b20_read_resolution calls was made, the
\* cached resolution of an initialised handle is 9, 10, 11, 12 or the invalid
\* sentinel
C11_CachedResolutionInRange ==
    ds18b20_info.init => ds18b20_info.resolution \in CachedResolutions

\* the presence seen by the resets of the last call, in order
IsReset(e) == e.k = "reset"
Resets == SelectSeq(wire, IsReset)

\* the data bytes the last call wrote after a function command, in order
IsWrite(e) == e.k = "write"
Written == SelectSeq(wire, IsWrite)

\* the verified write of the last ds18b20_set_resolution failed: the device
\* did not answer the write's reset (the second of the call), or not the
\* readback's (the third), or it does not hold the three bytes that were sent
VerifiedWriteFailed ==
    \/ Resets[2].v = 0
    \/ Resets[3].v = 0
    \/ << device.trigger_high, device.trigger_low, device.configuration >>
           # << Written[1].v, Written[2].v, Written[3].v >>

\* what a ds18b20_read_resolution gets from the device as it is now, with the
\* presence the last reset of the call saw
FreshResolution ==
    ds18b20_read_resolution(bus_init, ds18b20_info,
                            Resets[Len(Resets)].v = 1, device).resolution

C14_UndefinedBitsCleared ==
    (calc.f = "_decode_temp" /\ calc.resolution \in 9 .. 11)
        => /\ calc.result % (2 ^ (12 - calc.resolution)) = 0
           /\ calc.result =
                  _decode_temp(calc.lsb - (calc.lsb % (2 ^ (12 - calc.resolution))),
                               calc.msb, calc.resolution)

\* C15: with a cached resolution r in 9..12 and a tick of P milliseconds,
\* ds18b20_wait_for_conversion delays for the smallest number of ticks n with
\* n * P >= 750 / 2^(12-r) milliseconds
C15_SmallestTickCount ==
    (calc.f = "ds18b20_wait_for_conversion" /\ calc.init
         /\ calc.resolution \in 9 .. 12)
        => /\ calc.delayed
           /\ calc.result * calc.tick * (2 ^ (12 - calc.resolution)) >= 750
           /\ (calc.result - 1) * calc.tick * (2 ^ (12 - calc.resolution)) < 750

\* 93.75 ms on a 10 ms tick: ten ticks
C15_Witness ==
    /\ calc.f = "ds18b20_wait_for_conversion"
    /\ calc.init
    /\ calc.resolution = DS18B20_RESOLUTION_9_BIT
    /\ calc.tick = 10
    /\ calc.delayed
    /\ calc.result = 10

\* the number of bytes the last call read from the line
RECURSIVE BytesRead(_)
BytesRead(w) ==
    IF w = << >> THEN 0
    ELSE (IF Head(w).k = "read" THEN Head(w).v ELSE 0) + BytesRead(Tail(w))

\* C16: ds18b20_read_temp checks the scratchpad CRC exactly when use_crc is
\* set: then it reads 9 bytes and takes the CRC8 of all 9; without use_crc it
\* reads exactly 2 bytes, takes no CRC and closes with a bus reset
C16_CrcCheckedIffEnabled ==
    (op = "ds18b20_read_temp" /\ calc.read)
        => IF ds18b20_info.use_crc
           THEN /\ calc.checked
                /\ BytesRead(wire) = 9
                /\ Len(calc.buffer) = 9
                /\ calc.crc = crc_fold(0, calc.buffer)
                /\ wire[Len(wire)].k = "read"
           ELSE /\ ~calc.checked
                /\ BytesRead(wire) = 2
                /\ wire[Len(wire)].k = "reset"

\* a checked read whose nine bytes are good
C16_Witness ==
    /\ op = "ds18b20_read_temp"
    /\ calc.read
    /\ ds18b20_info.use_crc
    /\ calc.checked
    /\ calc.crc = 0
    /\ ret = 1360

\* what ds18b20_read_temp can return after a read that passed its CRC check
GoodTemperatures ==
    { _decode_temp(t[1], t[2], r) : t \in DeviceTemperatures, r \in 9 .. 12 }

\* C17: with CRC checking on, when the CRC8 of the 9 bytes read is not zero
\* both temperature bytes are zeroed before decoding, so the temperature is 0,
\* and the caller is told of the CRC error by the outcome of the call: it is
\* not what a good read returns
C17_CrcErrorReported ==
    (op = "ds18b20_read_temp" /\ calc.checked /\ calc.crc # 0)
        => /\ calc.lsb = 0
           /\ calc.msb = 0
           /\ ret = 0
           /\ ret \notin GoodTemperatures

\* the reset at position i of the wire is an addressing step: every reset is,
\* but the one that closes a read
AddressingAt(i) ==
    /\ wire[i].k = "reset"
    /\ ~(i > 1 /\ wire[i - 1].k = "read")

\* what follows the reset at position i is what _address_device sends
AddressedAt(i) ==
    IF wire[i].v = 0
    THEN i = Len(wire) \/ wire[i + 1].k \notin { "rom", "address" }
    ELSE IF ds18b20_info.solo
    THEN /\ Len(wire) > i
         /\ wire[i + 1] = Ev("rom", OWB_ROM_SKIP)
         /\ Len(wire) = i + 1 \/ wire[i + 2].k \notin { "rom", "address" }
    ELSE /\ Len(wire) >= i + 9
         /\ wire[i + 1] = Ev("rom", OWB_ROM_MATCH)
         /\ \A n \in 1 .. 8 :
               wire[i + 1 + n] = Ev("address", ds18b20_info.rom_code[n])
         /\ Len(wire) = i + 9 \/ wire[i + 10].k \notin { "rom", "address" }

\* the calls that are transactions with one device
DeviceTransaction ==
    \/ op \in { "ds18b20_init", "ds18b20_init_solo" }
    \/ op \in { "ds18b20_convert", "ds18b20_read_temp" } /\ drv.init

\* C18: every transaction with one device begins with a bus reset; on presence
\* a solo handle sends just 0xCC, another 0x55 and its 8 ROM code bytes; with
\* no presence nothing is sent and the device is reported as not responding
C18_AddressingStep ==
    DeviceTransaction
        => /\ Len(wire) >= 1
           /\ wire[1].k = "reset"
           /\ \A i \in 1 .. Len(wire) : AddressingAt(i) => AddressedAt(i)
           /\ (op = "ds18b20_convert") => (ret = (wire[1].v = 1))
           /\ (wire[1].v = 0) => Len(wire) = 1

\* a solo conversion and an addressed one that found nobody
C18_Witness ==
    /\ op = "ds18b20_convert"
    /\ drv.init
    /\ ds18b20_info.solo
    /\ ret = TRUE
    /\ wire = << Ev("reset", 1), Ev("rom", OWB_ROM_SKIP),
                 Ev("function", DS18B20_FUNCTION_TEMP_CONVERT) >>

\* C19: in every operation, after a bus reset that returned false nothing is
\* written to or read from the line for the rest of the transaction: the
\* call ends there, or goes on with the reset of another transaction
C19_FailedResetAborts ==
    \A i \in 1 .. Len(wire) :
        (wire[i].k = "reset" /\ wire[i].v = 0)
            => (i = Len(wire) \/ wire[i + 1].k = "reset")

\* position i of wire w holds the Write Scratchpad command
WriteCommandAt(w, i) == w[i] = Ev("function", DS18B20_FUNCTION_SCRATCHPAD_WRITE)

\* C20: a scratchpad write sends 0x4E and then exactly the three bytes
\* trigger_high, trigger_low, configuration, in that order, with nothing else
\* on the line in between; in ds18b20_set_resolution the triggers are those
\* read from the device just before (zero when it did not answer that read)
\* and the configuration is the value computed
C20_WriteIsOneBlock ==
    [][ (op' = "ds18b20_set_resolution")
          => \A i \in 1 .. Len(wire') :
                WriteCommandAt(wire', i)
                    => /\ Len(wire') >= i + 3
                       /\ wire'[i + 1] =
                              Ev("write", IF wire'[1].v = 1
                                          THEN device.trigger_high ELSE 0)
                       /\ wire'[i + 2] =
                              Ev("write", IF wire'[1].v = 1
                                          THEN device.trigger_low ELSE 0)
                       /\ wire'[i + 3] = Ev("write", drv'.value)
                       /\ Len(wire') = i + 3 \/ wire'[i + 4].k = "reset" ]_vars

\* a write of the power-on triggers and the 11-bit configuration that verified
C20_Witness ==
    /\ op = "ds18b20_set_resolution"
    /\ ret = TRUE
    /\ \E i \in 1 .. Len(wire) :
          /\ WriteCommandAt(wire, i)
          /\ wire[i + 1] = Ev("write", 75)
          /\ wire[i + 2] = Ev("write", 70)
          /\ wire[i + 3] = Ev("write", 95)

-----------------------------------------------------------------------------
(* one scratchpad transfer against the DS18B20, on a handle as the public *)
(* functions leave it                                                      *)

\* the bytes a caller may put in trigger_high, trigger_low and configuration
TriggerBytes == { 0, 70, 75 }
ConfigurationBytes == { 0, 31, 95, 127, 255 }

\* the handles: after ds18b20_malloc, after ds18b20_init with DevA, and after
\* ds18b20_init_solo, the device having answered at 12 bits
PadHandles ==
    { NoInfo,
      [ _init(NoInfo) EXCEPT !.rom_code = DevA,
                             !.resolution = DS18B20_RESOLUTION_12_BIT ],
      [ _init(NoInfo) EXCEPT !.solo = TRUE,
                             !.resolution = DS18B20_RESOLUTION_12_BIT ] }

InitPad ==
    /\ bus_init = TRUE
    /\ attached = { DevA }
    /\ device = PowerOnPad
    /\ state = ResetCursor(ZeroRom)
    /\ op = "none"
    /\ ret = FALSE
    /\ obs = NoObs
    /\ calls = 0
    /\ device_rom_codes = << >>
    /\ crc_acc = 0
    /\ crc_len = 0
    /\ crc_chk = 0
    /\ ds18b20_info \in PadHandles
    /\ wire = << >>
    /\ drv = NoDrv
    /\ calc = NoCalc
    /\ gpio = PowerOnPin
    /\ bus_use_crc = FALSE

\* _write_scratchpad(ds18b20_info, &scratchpad, verify), once
write_scratchpad ==
    /\ op = "none"
    /\ \E th \in TriggerBytes, tl \in TriggerBytes, c \in ConfigurationBytes,
          verify \in BOOLEAN, answers \in [ 1 .. 2 -> BOOLEAN ],
          stores \in BOOLEAN :
          \E r \in { _write_scratchpad(bus_init, ds18b20_info,
                                       << 0, 0, th, tl, c, 0, 0, 0, 0 >>,
                                       verify, answers[1], answers[2],
                                       stores, device) } :
              /\ ret' = r.result
              /\ wire' = r.wire
              /\ device' = r.pad
              /\ calc' = [ NoCalc EXCEPT !.f = "_write_scratchpad",
                                         !.init = ds18b20_info.init,
                                         !.checked = verify,
                                         !.buffer = << th, tl, c >> ]
    /\ op' = "_write_scratchpad"
    /\ drv' = [ NoDrv EXCEPT !.init = ds18b20_info.init,
                             !.resolution = ds18b20_info.resolution ]
    /\ gpio' = PinAfterSlot(bus_init, gpio, LastSlot(wire'))
    /\ UNCHANGED bus_use_crc
    /\ UNCHANGED << bus_init, state, attached, obs, calls, device_rom_codes,
                    ds18b20_info >>
    /\ UNCHANGED crcVars

\* _read_scratchpad(ds18b20_info, count), once
read_scratchpad ==
    /\ op = "none"
    /\ \E count \in { 2, 5, 9, 12 }, answers \in BOOLEAN :
          \E r \in { _read_scratchpad(bus_init, ds18b20_info, count,
                                      answers, device) } :
              /\ ret' = r.scratchpad
              /\ wire' = r.wire
              /\ calc' = [ NoCalc EXCEPT !.f = "_read_scratchpad",
                                         !.init = ds18b20_info.init,
                                         !.result = count,
                                         !.buffer = r.scratchpad ]
    /\ op' = "_read_scratchpad"
    /\ drv' = [ NoDrv EXCEPT !.init = ds18b20_info.init,
                             !.resolution = ds18b20_info.resolution ]
    /\ gpio' = PinAfterSlot(bus_init, gpio, LastSlot(wire'))
    /\ UNCHANGED bus_use_crc
    /\ UNCHANGED << bus_init, state, attached, obs, calls, device_rom_codes,
                    ds18b20_info, device >>
    /\ UNCHANGED crcVars

NextPad ==
    \/ write_scratchpad
    \/ read_scratchpad

SpecPad == InitPad /\ [][NextPad]_vars

-----------------------------------------------------------------------------
(* a handle configured with the public functions, then converted and read *)

\* float temp = ds18b20_convert_and_read_temp(ds18b20_info)
convert_and_read_temp ==
    /\ \E answers \in [ 1 .. 4 -> BOOLEAN ], garble \in Garbles :
          \E r \in { ds18b20_convert_and_read_temp(bus_init, ds18b20_info,
                                                   answers, garble, device) } :
              /\ ret' = r.temp
              /\ wire' = r.wire
    /\ op' = "ds18b20_convert_and_read_temp"
    /\ drv' = [ NoDrv EXCEPT !.init = ds18b20_info.init,
                             !.resolution = ds18b20_info.resolution ]
    /\ gpio' = PinAfterSlot(bus_init, gpio, LastSlot(wire'))
    /\ UNCHANGED bus_use_crc
    /\ UNCHANGED << bus_init, state, attached, obs, calls, device_rom_codes,
                    ds18b20_info, device >>
    /\ UNCHANGED crcVars
    /\ UNCHANGED calcVars

NextConv ==
    \/ init_device
    \/ set_resolution
    \/ convert_and_read_temp

SpecConv == InitDev /\ [][NextConv]_vars

-----------------------------------------------------------------------------
(* the bus functions call by call on the pin *)

\* the bytes written and the bytes a device sends in these runs
LineBytes == { 0, 1, 51, 85, 128, 204, 240, 255 }

\* the eight levels sampled while a device sends the byte b: the least
\* significant bit first
ByteOnLine(b) == [ i \in 1 .. 8 |-> Bit(b, i - 1) ]

\* the 64 levels sampled while the devices devs send their ROM codes: the
\* line idles high
RomOnLine(devs) ==
    [ n \in 1 .. 64 |-> WiredAnd({ RomBit(d, n) : d \in devs }) ]

\* void owb_use_crc(bus, use_crc)
use_bus_crc ==
    /\ \E enable \in BOOLEAN :
          bus_use_crc' = owb_use_crc(bus_init, bus_use_crc, enable)
    /\ op' = "owb_use_crc"
    /\ wire' = << >>
    /\ UNCHANGED << bus_init, state, attached, ret, obs, calls, device_rom_codes,
                    gpio, ds18b20_info, device, drv >>
    /\ UNCHANGED crcVars
    /\ UNCHANGED calcVars

\* bool owb_reset(bus), on the pin
reset_pin ==
    /\ \E level1 \in { 0, 1 }, level2 \in { 0, 1 } :
          \E r \in { ResetOnPin(bus_init, gpio, level1, level2) } :
              /\ ret' = r.present
              /\ wire' = r.calls
              /\ gpio' = r.pin
    /\ op' = "owb_reset"
    /\ calc' = NoCalc
    /\ UNCHANGED << bus_init, state, attached, obs, calls, device_rom_codes,
                    bus_use_crc, ds18b20_info, device, drv >>
    /\ UNCHANGED crcVars

\* void owb_write_byte(bus, data)
write_byte ==
    /\ \E data \in LineBytes :
          \E r \in { _write_byte(bus_init, gpio, data) } :
              /\ wire' = r.calls
              /\ gpio' = r.pin
              /\ calc' = [ NoCalc EXCEPT !.f = "owb_write_byte", !.lsb = data ]
    /\ op' = "owb_write_byte"
    /\ ret' = FALSE
    /\ UNCHANGED << bus_init, state, attached, obs, calls, device_rom_codes,
                    bus_use_crc, ds18b20_info, device, drv >>
    /\ UNCHANGED crcVars

\* uint8_t owb_read_byte(bus)
read_byte ==
    /\ \E b \in LineBytes :
          \E r \in { _read_byte(bus_init, gpio, ByteOnLine(b)) } :
              /\ ret' = r.result
              /\ wire' = r.calls
              /\ gpio' = r.pin
              /\ calc' = [ NoCalc EXCEPT !.f = "owb_read_byte", !.lsb = b ]
    /\ op' = "owb_read_byte"
    /\ UNCHANGED << bus_init, state, attached, obs, calls, device_rom_codes,
                    bus_use_crc, ds18b20_info, device, drv >>
    /\ UNCHANGED crcVars

\* uint64_t rom_code = owb_read_rom(bus); the devices may miss the reset
read_rom ==
    /\ \E levels \in { PresenceLevels(attached), << 1, 1 >> } :
          \E r \in { owb_read_rom(bus_init, bus_use_crc, gpio,
                                  levels[1], levels[2], RomOnLine(attached)) } :
              /\ ret' = r.rom_code
              /\ wire' = r.calls
              /\ gpio' = r.pin
              /\ calc' = [ NoCalc EXCEPT !.f = "owb_read_rom",
                                         !.init = bus_init,
                                         !.read = (r.buffer # << >>),
                                         !.checked = r.checked,
                                         !.crc = r.crc,
                                         !.buffer = r.buffer ]
    /\ op' = "owb_read_rom"
    /\ UNCHANGED << bus_init, state, attached, obs, calls, device_rom_codes,
                    bus_use_crc, ds18b20_info, device, drv >>
    /\ UNCHANGED crcVars

\* owb_write_rom_code(bus, rom_code): after owb_read_rom with the code it
\* returned, else with a known code; calc keeps the bytes owb_read_rom received
write_rom_code ==
    /\ \E rom_code \in (IF op = "owb_read_rom" THEN { ret } ELSE { DevA, DevD }) :
          \E r \in { owb_write_rom_code(bus_init, gpio, rom_code) } :
              /\ wire' = r.calls
              /\ gpio' = r.pin
              /\ calc' = [ NoCalc EXCEPT !.f = "owb_write_rom_code",
                                         !.init = bus_init,
                                         !.read = (op = "owb_read_rom") /\ calc.read,
                                         !.buffer = IF op = "owb_read_rom"
                                                    THEN calc.buffer ELSE << >>,
                                         !.result = rom_code ]
    /\ op' = "owb_write_rom_code"
    /\ ret' = FALSE
    /\ UNCHANGED << bus_init, state, attached, obs, calls, device_rom_codes,
                    bus_use_crc, ds18b20_info, device, drv >>
    /\ UNCHANGED crcVars

NextWire ==
    \/ owb_init
    \/ use_bus_crc
    \/ reset_pin
    \/ write_byte
    \/ read_byte
    \/ read_rom
    \/ write_rom_code

SpecWire == Init /\ [][NextWire]_vars

-----------------------------------------------------------------------------
(* one byte through the write slots and back through the read slots *)

InitByte ==
    /\ bus_init = TRUE
    /\ attached = {}
    /\ device = PowerOnPad
    /\ InitCommon

\* owb_write_byte(bus, data), then owb_read_byte(bus) sampling in its eight
\* read slots the bits that the eight write slots carried
write_byte_read_back ==
    /\ calc.f = "none"
    /\ \E data \in Byte :
          \E w \in { _write_byte(bus_init, gpio, data) } :
              \E r \in { _read_byte(bus_init, w.pin, WrittenBits(w.calls)) } :
                  /\ ret' = r.result
                  /\ wire' = w.calls \o r.calls
                  /\ gpio' = r.pin
                  /\ calc' = [ NoCalc EXCEPT !.f = "owb_write_byte",
                                             !.lsb = data,
                                             !.buffer = WrittenBits(w.calls),
                                             !.result = r.result ]
    /\ op' = "owb_read_byte"
    /\ UNCHANGED << bus_init, state, attached, obs, calls, device_rom_codes,
                    bus_use_crc, ds18b20_info, device, drv >>
    /\ UNCHANGED crcVars

\* owb_read_byte(bus) on any eight sampled levels
read_byte_levels ==
    /\ calc.f = "none"
    /\ \E levels \in [ 1 .. 8 -> { 0, 1 } ] :
          \E r \in { _read_byte(bus_init, gpio, levels) } :
              /\ ret' = r.result
              /\ wire' = r.calls
              /\ gpio' = r.pin
              /\ calc' = [ NoCalc EXCEPT !.f = "owb_read_byte",
                                         !.buffer = levels,
                                         !.result = r.result ]
    /\ op' = "owb_read_byte"
    /\ UNCHANGED << bus_init, state, attached, obs, calls, device_rom_codes,
                    bus_use_crc, ds18b20_info, device, drv >>
    /\ UNCHANGED crcVars

NextByte ==
    \/ write_byte_read_back
    \/ read_byte_levels

SpecByte == InitByte /\ [][NextByte]_vars

-----------------------------------------------------------------------------
(* every function on every handle: NULL, allocated, initialised *)

\* owb_init(NULL, gpio): line 399, nothing is done
init_null_bus ==
    /\ op' = "owb_init(NULL)"
    /\ ret' = FALSE
    /\ wire' = << >>
    /\ obs' = NoObs
    /\ calc' = NoCalc
    /\ drv' = NoDrv
    /\ UNCHANGED << bus_init, state, attached, calls, device_rom_codes,
                    ds18b20_info, device >>
    /\ UNCHANGED pinVars
    /\ UNCHANGED crcVars

\* ds18b20_init(NULL, bus, rom_code) and ds18b20_init_solo(NULL, bus):
\* lines 273 and 289, nothing is done
init_null_device ==
    /\ op' = "ds18b20_init(NULL)"
    /\ ret' = FALSE
    /\ wire' = << >>
    /\ obs' = NoObs
    /\ calc' = NoCalc
    /\ drv' = NoDrv
    /\ UNCHANGED << bus_init, state, attached, calls, device_rom_codes,
                    ds18b20_info, device >>
    /\ UNCHANGED pinVars
    /\ UNCHANGED crcVars

\* the bus after owb_malloc or after owb_init, the device handle after
\* ds18b20_malloc or after one of the two init functions; DevA on the line
InitHandles ==
    /\ bus_init \in BOOLEAN
    /\ attached = { DevA }
    /\ device = PowerOnPad
    /\ state = ResetCursor(ZeroRom)
    /\ op = "none"
    /\ ret = FALSE
    /\ obs = NoObs
    /\ calls = 0
    /\ device_rom_codes = << >>
    /\ crc_acc = 0
    /\ crc_len = 0
    /\ crc_chk = 0
    /\ ds18b20_info \in PadHandles
    /\ wire = << >>
    /\ drv = NoDrv
    /\ calc = NoCalc
    /\ gpio = PowerOnPin
    /\ bus_use_crc = FALSE

\* one call of one function on these handles
NextHandles ==
    \/ op = "none" /\ init_null_bus
    \/ op = "none" /\ owb_init
    \/ op = "none" /\ use_bus_crc
    \/ op = "none" /\ reset_pin
    \/ op = "none" /\ write_byte
    \/ op = "none" /\ read_byte
    \/ op = "none" /\ read_rom
    \/ op = "none" /\ write_rom_code
    \/ op = "none" /\ owb_search_first
    \/ op = "none" /\ owb_search_next
    \/ op = "none" /\ init_null_device
    \/ op = "none" /\ init_device
    \/ op = "none" /\ init_solo_device
    \/ op = "none" /\ use_crc
    \/ op = "none" /\ set_resolution
    \/ op = "none" /\ read_resolution
    \/ op = "none" /\ convert
    \/ op = "none" /\ read_temp
    \/ op = "none" /\ convert_and_read_temp

SpecHandles == InitHandles /\ [][NextHandles]_vars

-----------------------------------------------------------------------------
(* one bit position of a search pass *)

\* the ROM codes the cursor may hold when a position is reached
CursorRoms == { ZeroRom, DevA, DevBad }

\* the locals of _search when the loop reaches position n: rom_byte_number and
\* rom_byte_mask are those of bit n, as lines 317-328 keep them
LoopAt(st, n) ==
    [ LoopInit(st) EXCEPT !.id_bit_number = n,
                          !.rom_byte_number = (n - 1) \div 8,
                          !.rom_byte_mask = 2 ^ ((n - 1) % 8) ]

\* lines 283-328 at one position, for a pair of bits read that is not (1,1):
\* calc keeps the pair and the ROM code before, state the cursor as the turn
\* leaves it, ret the direction handed to _write_bit
search_bit ==
    /\ calc.f = "none"
    /\ \E n \in 1 .. 64, last_discrepancy \in 0 .. 64, rom_code \in CursorRoms,
          pair \in { << 0, 0 >>, << 0, 1 >>, << 1, 0 >> } :
          \E L \in { SearchBit(LoopAt([ ResetCursor(rom_code) EXCEPT
                                           !.last_discrepancy = last_discrepancy ],
                                      n),
                               last_discrepancy, pair[1], pair[2]) } :
              /\ state' = [ ResetCursor(L.rom_code) EXCEPT
                              !.last_discrepancy = last_discrepancy,
                              !.last_family_discrepancy = L.last_family_discrepancy ]
              /\ obs' = [ NoObs EXCEPT !.id_bit_number = L.id_bit_number,
                                       !.rom_byte_number = L.rom_byte_number,
                                       !.bits = L.bits,
                                       !.last_zero = L.last_zero ]
              /\ ret' = L.search_direction
              /\ calc' = [ NoCalc EXCEPT !.f = "_search",
                                         !.lsb = pair[1], !.msb = pair[2],
                                         !.buffer = rom_code ]
    /\ op' = "_search"
    /\ UNCHANGED << bus_init, attached, calls, device_rom_codes >>
    /\ UNCHANGED pinVars
    /\ UNCHANGED crcVars
    /\ UNCHANGED devVars

NextBit ==
    \/ search_bit

SpecBit == InitByte /\ [][NextBit]_vars

-----------------------------------------------------------------------------
(* the scratchpad write and its verification *)

\* a verified write on an initialised handle whose two resets were answered
VerifiedWrite ==
    /\ op = "_write_scratchpad"
    /\ calc.init
    /\ calc.checked
    /\ Len(Resets) = 2
    /\ Resets[1].v = 1
    /\ Resets[2].v = 1

\* the values of the data bytes the last call wrote, in order
WrittenValues == [ i \in 1 .. Len(Written) |-> Written[i].v ]

\* the device holds the three bytes the caller asked to write
DeviceHolds ==
    << device.trigger_high, device.trigger_low, device.configuration >>
        = calc.buffer

\* C21: a verified scratchpad write whose resets are both answered returns
\* success when the device holds the three bytes written (they are read back
\* as written), and failure when any of the three bytes read back differs.
C21_VerifiedRoundTrip ==
    VerifiedWrite =>
        /\ WrittenValues = calc.buffer
        /\ ret = DeviceHolds

\* the configuration byte alone is read back different from the one written
C21_Witness ==
    /\ VerifiedWrite
    /\ calc.buffer = << 75, 70, 95 >>
    /\ device.trigger_high = 75
    /\ device.trigger_low = 70
    /\ device.configuration = 127
    /\ ret = FALSE

\* the three bytes 0x4B, 0x46, 0x7F written, stored and verified
C21_Stored ==
    /\ VerifiedWrite
    /\ calc.buffer = << 75, 70, 127 >>
    /\ ret = TRUE

\* the read-back is answered and differs from the bytes written
VerificationFailed == VerifiedWrite /\ ~DeviceHolds

\* what the same verified write reports when the device does not answer the
\* reset of the write or the reset of the read-back
CommunicationResults ==
    { _write_scratchpad(bus_init, ds18b20_info,
                        << 0, 0, calc.buffer[1], calc.buffer[2],
                           calc.buffer[3], 0, 0, 0, 0 >>,
                        TRUE, a[1], a[2], TRUE, device).result :
        a \in { b \in [ 1 .. 2 -> BOOLEAN ] : ~(b[1] /\ b[2]) } }

\* C22: a verification failure of a verified scratchpad write is never
\* reported with a result that a communication failure of that write
\* (no answer to the write's reset or to the read-back's reset) also produces.
C22_FailuresDistinct ==
    VerificationFailed => ret \notin CommunicationResults

\* the milliseconds _wait_for_conversion(resolution) blocks on a tick of
\* tick milliseconds; nothing when it does not delay
WaitMs(resolution, tick) ==
    IF _wait_for_conversion(resolution, tick).delayed
    THEN _wait_for_conversion(resolution, tick).ticks * tick
    ELSE 0

\* C23: on an initialised bus ds18b20_convert_all does, in order, a bus reset,
\* a write of 0xCC, a write of 0x44, and then a wait for the 12-bit conversion
\* time, which is at least 750 ms on every tick period
C23_ConvertAllSequence ==
    (op = "ds18b20_convert_all" /\ bus_init)
        => /\ Len(wire) = 4
           /\ wire[1].k = "reset"
           /\ wire[2] = [ k |-> "rom", v |-> 204 ]
           /\ wire[3] = [ k |-> "function", v |-> 68 ]
           /\ wire[4].k = "wait"
           /\ \A tick \in 1 .. MaxTickPeriod : WaitMs(wire[4].v, tick) >= 750

\* a convert-all that the devices answered
C23_Witness ==
    /\ op = "ds18b20_convert_all"
    /\ bus_init
    /\ wire[1] = [ k |-> "reset", v |-> 1 ]
    /\ wire[4] = [ k |-> "wait", v |-> 12 ]

\* the positions of the line trace that carry the function command f
FunctionAt(f) ==
    { i \in 1 .. Len(wire) : wire[i] = [ k |-> "function", v |-> f ] }

\* the resolution the device converts at: bits 5-6 of its configuration byte
DeviceResolution == 9 + ((device.configuration \div 32) % 4)

\* position j is a conversion wait long enough for the device, on every tick
EnoughWaitAt(j) ==
    /\ wire[j].k = "wait"
    /\ \A tick \in 1 .. MaxTickPeriod :
          WaitMs(wire[j].v, tick) * (2 ^ (12 - DeviceResolution)) >= 750

\* C24: in ds18b20_convert_and_read_temp, once the convert command 0x44 was
\* issued, a wait of at least 750 / 2^(12-r) ms for the device's resolution r
\* comes after it and before the scratchpad-read command 0xBE, whatever the
\* cached resolution; when convert fails there is no wait and no read and the
\* call returns 0.
C24_ConvertWaitRead ==
    (op = "ds18b20_convert_and_read_temp" /\ drv.init)
        => IF FunctionAt(68) # { }
           THEN \A i \in FunctionAt(68), k \in FunctionAt(190) :
                   /\ i < k
                   /\ \E j \in (i + 1) .. (k - 1) : EnoughWaitAt(j)
           ELSE /\ ret = 0
                /\ \A n \in 1 .. Len(wire) : wire[n].k \notin { "wait", "read" }
                /\ FunctionAt(190) = { }

-----------------------------------------------------------------------------
(* the pin, the bytes and the ROM code on the line *)

\* the master drives the line low
HeldLow == gpio.direction = "output" /\ gpio.level = 0

\* C25: after every operation has returned, the master is not holding the
\* line low: the pin is an input or it is driven high
C25_LineReleased == ~HeldLow

\* owb_read_rom left on a CRC failure, and the pin is an input
C25_Witness ==
    /\ op = "owb_read_rom"
    /\ calc.checked
    /\ calc.crc # 0
    /\ gpio.direction = "input"

\* a write that ended in a write slot leaves the pin driven high
C25_DrivenHigh ==
    /\ op = "owb_write_byte"
    /\ bus_init
    /\ gpio = [ direction |-> "output", level |-> 1 ]

\* the value of eight bits, the first the least significant
RECURSIVE LsbFirst(_)
LsbFirst(bits) ==
    IF bits = << >> THEN 0 ELSE Head(bits) + 2 * LsbFirst(Tail(bits))

\* the eight bytes the devices on the line send after Read ROM
LineRomBytes ==
    [ j \in 1 .. 8 |->
        LsbFirst([ i \in 1 .. 8 |->
                     WiredAnd({ RomBit(d, 8 * (j - 1) + i) : d \in attached }) ]) ]

\* the two samples the reset of the last call took
ResetSamples == << wire[8].v, wire[10].v >>

\* C27: owb_read_rom returns zero when its reset sees no presence; with
\* use_crc set it returns zero when the CRC8 over the eight bytes received is
\* not zero and the eight bytes when it is zero; with use_crc clear it returns
\* the eight bytes without a CRC check
C27_ReadRomResult ==
    (op = "owb_read_rom" /\ bus_init)
        => IF ResetSamples # << 0, 1 >>
           THEN ret = << 0, 0, 0, 0, 0, 0, 0, 0 >> /\ Len(wire) = 10
           ELSE IF bus_use_crc
           THEN /\ calc.checked
                /\ ret = IF crc_fold(0, LineRomBytes) # 0
                         THEN << 0, 0, 0, 0, 0, 0, 0, 0 >>
                         ELSE LineRomBytes
           ELSE /\ ~calc.checked
                /\ ret = LineRomBytes

\* a corrupted code is returned as received when use_crc is clear
C27_Witness ==
    /\ op = "owb_read_rom"
    /\ bus_init
    /\ ~bus_use_crc
    /\ attached = { DevBad }
    /\ ret = DevBad

\* a corrupted code is returned as zero when use_crc is set
C27_Rejected ==
    /\ op = "owb_read_rom"
    /\ bus_use_crc
    /\ attached = { DevBad }
    /\ ResetSamples = << 0, 1 >>
    /\ ret = ZeroRom

\* C28: owb_write_byte(v) emits the bits of v the least significant first,
\* owb_read_byte assembles the bits it samples the least significant first,
\* and reading back the bits emitted for v returns v
C28_ByteRoundTrip ==
    /\ calc.f = "owb_write_byte"
           => /\ calc.buffer = [ i \in 1 .. 8 |-> (calc.lsb \div (2 ^ (i - 1))) % 2 ]
              /\ ret = calc.lsb
    /\ calc.f = "owb_read_byte" => ret = LsbFirst(calc.buffer)

\* 0xF0 went out as 0,0,0,0,1,1,1,1 and came back as 0xF0
C28_Witness ==
    /\ calc.f = "owb_write_byte"
    /\ calc.lsb = 240
    /\ calc.buffer = << 0, 0, 0, 0, 1, 1, 1, 1 >>
    /\ ret = 240

\* the eight bytes the write slots of the last call carried
WireBytes ==
    [ j \in 1 .. 8 |->
        LsbFirst(SubSeq(WrittenBits(wire), 8 * (j - 1) + 1, 8 * j)) ]

\* C29: owb_write_rom_code sends exactly eight bytes, byte 0 of the code (the
\* family byte) first and byte 7 (the CRC) last; sent with the code that
\* owb_read_rom returned from a read that did not fail, they are the eight
\* bytes owb_read_rom received, in the order received
C29_RomCodeOrder ==
    (op = "owb_write_rom_code" /\ bus_init)
        => /\ Len(wire) = 8 * 8 * 5
           /\ WireBytes = calc.result
           /\ (calc.read /\ calc.result # << 0, 0, 0, 0, 0, 0, 0, 0 >>)
                  => WireBytes = calc.buffer

\* DevA's code read and written back
C29_Witness ==
    /\ op = "owb_write_rom_code"
    /\ bus_init
    /\ calc.read
    /\ calc.buffer = DevA
    /\ WireBytes = << 40, 238, 204, 135, 46, 22, 1, 0 >>

-----------------------------------------------------------------------------
(* calls on handles that are NULL or not initialised *)

\* the bus functions that go through _is_init(bus): a NULL bus and a bus that
\* is not initialised take the same branch
BusFns ==
    { "owb_use_crc", "owb_reset", "owb_write_byte", "owb_read_byte",
      "owb_read_rom", "owb_write_rom_code", "owb_search_first",
      "owb_search_next" }

\* the driver functions that go through _is_init(ds18b20_info)
DriverFns ==
    { "ds18b20_use_crc", "ds18b20_set_resolution", "ds18b20_read_resolution",
      "ds18b20_convert", "ds18b20_read_temp", "ds18b20_convert_and_read_temp" }

\* the two functions that initialise a device handle
InitFns == { "ds18b20_init", "ds18b20_init_solo" }

\* the value the function f returns on a handle it refuses
FailureValue(f) ==
    IF f = "ds18b20_read_resolution" THEN -1
    ELSE IF f \in { "ds18b20_read_temp", "ds18b20_convert_and_read_temp",
                    "owb_read_byte" } THEN 0
    ELSE IF f = "owb_read_rom" THEN << 0, 0, 0, 0, 0, 0, 0, 0 >>
    ELSE FALSE

\* nothing was done on the pin and nothing was put on the line
NoPinActivity ==
    /\ wire = << >>
    /\ gpio = PowerOnPin
    /\ obs.resets = 0
    /\ obs.bits = 0

\* the last call was the bus function op on a bus that is not initialised
UninitBusCall == op \in BusFns /\ ~bus_init

\* the last call was a function of fns on a device handle that is not initialised
UninitDeviceCall(fns) == op \in fns /\ ~drv.init

C26_BusWitness ==
    /\ op = "owb_read_rom"
    /\ ~bus_init
    /\ ret = ZeroRom
    /\ wire = << >>

-----------------------------------------------------------------------------
(* the search at one bit position *)

\* bit n (1..64) of a ROM code: byte 0 first, each byte from its bit 0
CodeBit(rom_code, n) == (rom_code[((n - 1) \div 8) + 1] \div (2 ^ ((n - 1) % 8))) % 2

\* the position the last search turn handled
TurnPosition == obs.id_bit_number - 1

\* C30: at a bit position of a search pass, a pair of bits that differ gives
\* the direction id_bit; the pair (0,0) gives the bit the cursor's ROM code
\* holds there when the position is before last_discrepancy, 1 at
\* last_discrepancy and 0 after it; the bit then stored in the cursor's ROM
\* code at the position is the direction written, the other bits stay
C30_DirectionAtPosition ==
    calc.f = "_search"
        => /\ calc.lsb # calc.msb => ret = calc.lsb
           /\ (calc.lsb = 0 /\ calc.msb = 0)
                  => ret = IF TurnPosition < state.last_discrepancy
                           THEN CodeBit(calc.buffer, TurnPosition)
                           ELSE IF TurnPosition = state.last_discrepancy
                           THEN 1 ELSE 0
           /\ CodeBit(state.rom_code, TurnPosition) = ret
           /\ \A n \in 1 .. 64 :
                 n # TurnPosition
                     => CodeBit(state.rom_code, n) = CodeBit(calc.buffer, n)

\* a discrepancy at position 4 before last_discrepancy 40: DevA's bit 4 is 1
\* and is taken again
C30_Witness ==
    /\ calc.f = "_search"
    /\ calc.lsb = 0
    /\ calc.msb = 0
    /\ TurnPosition = 4
    /\ state.last_discrepancy = 40
    /\ calc.buffer = DevA
    /\ ret = 1
    /\ state.rom_code = DevA

-----------------------------------------------------------------------------
(* one step of the CRC8 accumulator, on any accumulator and any byte *)

\* uint8_t owb_crc8(crc, data): return _calc_crc(crc, data); calc keeps the
\* two arguments and the value returned
crc8_step ==
    /\ calc.f = "none"
    /\ \E crc \in Byte, data \in Byte :
          calc' = [ NoCalc EXCEPT !.f = "owb_crc8",
                                  !.buffer = << crc, data >>,
                                  !.crc = _calc_crc(crc, data) ]
    /\ op' = "owb_crc8"
    /\ UNCHANGED << bus_init, state, attached, ret, obs, calls, device_rom_codes >>
    /\ UNCHANGED pinVars
    /\ UNCHANGED crcVars
    /\ UNCHANGED devVars

NextStep == crc8_step

SpecStep == InitCrc /\ [][NextStep]_vars

-----------------------------------------------------------------------------
(* the cursor after a pass, and the order of the devices found *)

\* the devices still taking part at position n of a pass that ended with
\* rom_code: those that sent the same bits at every earlier position
TakingPart(devs, rom_code, n) ==
    { d \in devs : \A k \in 1 .. (n - 1) : CodeBit(d, k) = CodeBit(rom_code, k) }

\* the positions of the pass at which the line read (0,0) and 0 was written
ZeroBranches(devs, rom_code) ==
    { n \in 1 .. 64 :
        /\ CodeBit(rom_code, n) = 0
        /\ \E d0 \in TakingPart(devs, rom_code, n) : CodeBit(d0, n) = 0
        /\ \E d1 \in TakingPart(devs, rom_code, n) : CodeBit(d1, n) = 1 }

\* the highest of them, 0 if there is none
HighestZeroBranch(devs, rom_code) ==
    IF ZeroBranches(devs, rom_code) = {} THEN 0
    ELSE CHOOSE n \in ZeroBranches(devs, rom_code) :
             \A m \in ZeroBranches(devs, rom_code) : m <= n

\* C31: after a successful search pass, last_discrepancy is the highest bit
\* position at which a (0,0) discrepancy was resolved with direction 0 during
\* that pass, 0 if there was none, and last_device_flag is set iff it is 0.
C31_LastDiscrepancyIsLastZero ==
    (op \in SearchOps /\ ret = TRUE) =>
        /\ state.last_discrepancy = HighestZeroBranch(attached, state.rom_code)
        /\ state.last_device_flag <=> (state.last_discrepancy = 0)

\* a pass found a device after taking the 0 branch at a discrepancy
C31_Witness ==
    /\ op \in SearchOps
    /\ ret = TRUE
    /\ state.last_discrepancy > 0
    /\ state.last_discrepancy = HighestZeroBranch(attached, state.rom_code)
    /\ ~state.last_device_flag

\* a pass found the last device of the line
C31_Exhausted ==
    /\ op = "owb_search_next"
    /\ ret = TRUE
    /\ Cardinality(attached) >= 2
    /\ state.last_discrepancy = 0
    /\ state.last_device_flag

\* the positions of the wire that hold the Read Scratchpad command
ReadCommands ==
    { i \in 1 .. Len(wire) : wire[i] = Ev("function", DS18B20_FUNCTION_SCRATCHPAD_READ) }

\* the number of events of kind k on the wire before position i
CountBefore(k, i) == Cardinality({ j \in 1 .. (i - 1) : wire[j].k = k })

\* the last reset before position i saw a presence pulse
LastResetPresent(i) ==
    \E j \in 1 .. (i - 1) :
        /\ wire[j] = Ev("reset", 1)
        /\ \A m \in (j + 1) .. (i - 1) : wire[m].k # "reset"

\* C32: a ds18b20_read_temp call puts exactly one reset and one addressing
\* sequence (skip ROM, or match ROM and the 8 ROM bytes) on the bus before the
\* scratchpad-read command 0xBE, and sends that command only after an
\* addressing step whose reset detected presence.
C32_OneAddressingBeforeRead ==
    (op = "ds18b20_read_temp")
        => \A i \in ReadCommands :
              /\ CountBefore("reset", i) = 1
              /\ CountBefore("rom", i) = 1
              /\ CountBefore("address", i) = (IF ds18b20_info.solo THEN 0 ELSE 8)
              /\ LastResetPresent(i)

\* the two parts of C32 on their own: one addressing step before the command
C32_OneReset ==
    (op = "ds18b20_read_temp") => \A i \in ReadCommands : CountBefore("reset", i) = 1

\* and presence at the reset of the step the command follows
C32_PresenceBeforeRead ==
    (op = "ds18b20_read_temp") => \A i \in ReadCommands : LastResetPresent(i)

\* the last call's only reset was not answered: nothing was read from the device
ResetUnanswered == wire = << Ev("reset", 0) >>

\* C33: if the device does not answer the bus reset during
\* ds18b20_read_resolution (and so during ds18b20_init or ds18b20_init_solo),
\* the value returned and cached is the invalid-resolution sentinel, never a
\* resolution in 9..12 that was not read from the device.
C33_UnansweredReadIsInvalid ==
    /\ (op = "ds18b20_read_resolution" /\ drv.init /\ ResetUnanswered)
           => ret = DS18B20_RESOLUTION_INVALID
    /\ (op \in { "ds18b20_init", "ds18b20_init_solo" } /\ ResetUnanswered)
           => ds18b20_info.resolution = DS18B20_RESOLUTION_INVALID

\* what the unanswered read gives: the 9-bit value, whatever the device holds
C33_NineFromNothing ==
    /\ (op = "ds18b20_read_resolution" /\ drv.init /\ ResetUnanswered)
           => ret = DS18B20_RESOLUTION_9_BIT
    /\ (op \in { "ds18b20_init", "ds18b20_init_solo" } /\ ResetUnanswered)
           => ds18b20_info.resolution = DS18B20_RESOLUTION_9_BIT

\* an unanswered ds18b20_init left 9 in the cache of a device set to 12 bits
C33_StaleNine ==
    /\ op = "ds18b20_init"
    /\ ResetUnanswered
    /\ ds18b20_info.resolution = DS18B20_RESOLUTION_9_BIT
    /\ device.configuration = 127

\* the step is a ds18b20_set_resolution call that keeps the device's triggers:
\* the trigger bytes it writes are the device's, and the device holds them after
TriggersKept ==
    /\ device'.trigger_high = device.trigger_high
    /\ device'.trigger_low = device.trigger_low
    /\ \A i \in 1 .. Len(wire') :
          WriteCommandAt(wire', i)
              => /\ wire'[i + 1] = Ev("write", device.trigger_high)
                 /\ wire'[i + 2] = Ev("write", device.trigger_low)

\* C34: ds18b20_set_resolution never changes the device's trigger_high and
\* trigger_low bytes: in every execution, also when the device misses the reset
\* of the initial scratchpad read and answers the reset of the write after it,
\* the two trigger bytes written equal those the device held before the call.
C34_TriggersPreserved ==
    [][ (op' = "ds18b20_set_resolution") => TriggersKept ]_vars

\* the triggers are kept in the calls whose initial read was answered
C34_PreservedWhenRead ==
    [][ (op' = "ds18b20_set_resolution" /\ wire' # << >> /\ wire'[1].v = 1)
            => TriggersKept ]_vars

\* a call whose read was missed and whose write was taken: the triggers are 0
C34_TriggersZeroed ==
    /\ op = "ds18b20_set_resolution"
    /\ Len(wire) >= 2
    /\ wire[1] = Ev("reset", 0)
    /\ wire[2] = Ev("reset", 1)
    /\ device.trigger_high = 0
    /\ device.trigger_low = 0

\* the resolution the device works at: bits 5-6 of its configuration byte
ConfiguredResolution == ((device.configuration \div 32) % 4) + 9

\* C35: whenever ds18b20_set_resolution returns true against a device that
\* stores what it receives, the handle's cached resolution equals the
\* resolution encoded in bits 5-6 of the device's configuration byte
\* (((config >> 5) & 3) + 9), for every requested value.
C35_CacheMatchesDevice ==
    (op = "ds18b20_set_resolution" /\ ret = TRUE)
        => ds18b20_info.resolution = ConfiguredResolution

\* the same for the requests that are resolutions
C35_MatchesForValidRequests ==
    (op = "ds18b20_set_resolution" /\ ret = TRUE
         /\ _check_resolution(drv.requested))
        => ds18b20_info.resolution = ConfiguredResolution

\* a request of 13 was accepted: the cache holds 13, the device works at 9 bits
C35_ThirteenCached ==
    /\ op = "ds18b20_set_resolution"
    /\ ret = TRUE
    /\ drv.requested = 13
    /\ ds18b20_info.resolution = 13
    /\ ConfiguredResolution = 9

\* code a comes before code b as bit strings in transmission order, and n is
\* the first position at which they differ
BranchesAt(a, b, n) ==
    /\ n \in 1 .. 64
    /\ \A k \in 1 .. (n - 1) : CodeBit(a, k) = CodeBit(b, k)
    /\ CodeBit(a, n) = 0
    /\ CodeBit(b, n) = 1

ComesBefore(a, b) == \E n \in 1 .. 64 : BranchesAt(a, b, n)

\* the step is an owb_search_next that finds a device right after a call that
\* found one
FoundAfterFound ==
    /\ op \in SearchOps
    /\ ret = TRUE
    /\ op' = "owb_search_next"
    /\ ret' = TRUE

\* the codes collected before the enumeration ran out, each before the next
FoundInOrder ==
    (calls <= Cardinality(attached))
        => \A i \in 1 .. Len(device_rom_codes), j \in 1 .. Len(device_rom_codes) :
              (i < j) => ComesBefore(device_rom_codes[i], device_rom_codes[j])

\* C36: on a bus whose devices do not change, two consecutive successful search
\* results A then B, with d the cursor's last_discrepancy after A: B agrees
\* with A on positions 1..d-1, A has 0 and B has 1 at position d; so the
\* devices come in strictly increasing order of their codes read as bit strings
\* in transmission order, and none comes twice within one enumeration.
C36_NextBranchesAtLastDiscrepancy ==
    [][ /\ FoundAfterFound
            => BranchesAt(state.rom_code, state'.rom_code, state.last_discrepancy)
        /\ FoundInOrder' ]_vars

\* the second and third of three devices were found one after the other
C36_Witness ==
    /\ op = "owb_search_next"
    /\ ret = TRUE
    /\ calls = 3
    /\ Len(device_rom_codes) = 3
    /\ ComesBefore(device_rom_codes[1], device_rom_codes[2])
    /\ ComesBefore(device_rom_codes[2], device_rom_codes[3])
    /\ device_rom_codes[3] = state.rom_code

\* the bit positions the last pass handled (read a pair that is not (1,1),
\* stored and wrote a direction)
PositionsHandled == 1 .. (obs.id_bit_number - 1)

\* the index into rom_code at bit position n: lines 317-328 move to the next
\* byte every eighth position
ByteIndexAt(n) == (n - 1) \div 8

\* the cursor's fields are in their ranges
CursorInRange ==
    /\ state.last_discrepancy \in 0 .. 64
    /\ state.last_family_discrepancy \in 0 .. 8
    /\ state.last_device_flag => (state.last_discrepancy = 0)

\* C37: after any sequence of owb_search_first and owb_search_next calls on a
\* cursor that started zeroed, under any bus responses, 0 <= last_discrepancy
\* <= 64, 0 <= last_family_discrepancy <= 8, last_device_flag set implies
\* last_discrepancy = 0, and the ROM code byte index used during a pass never
\* exceeds 7.
C37_CursorInRange ==
    /\ CursorInRange
    /\ obs.id_bit_number \in 1 .. 65
    /\ obs.rom_byte_number = ByteIndexAt(obs.id_bit_number)
    /\ \A n \in PositionsHandled : ByteIndexAt(n) \in 0 .. 7

\* a pass went through all 64 positions with a discrepancy in the family byte
C37_Witness ==
    /\ op \in SearchOps
    /\ ret = TRUE
    /\ obs.id_bit_number = 65
    /\ obs.rom_byte_number = 8
    /\ state.last_discrepancy > 0
    /\ state.last_family_discrepancy > 0

\* a pass was given up inside byte 4, the cursor went back to zero
C37_GivenUp ==
    /\ op \in SearchOps
    /\ ret = FALSE
    /\ obs.id_bit_number = 40
    /\ obs.rom_byte_number = 4
    /\ state.last_discrepancy = 0

\* one turn of the loop at any position, for any last_discrepancy and any pair
\* read: the locals stay in their ranges and in step with the position
C37_TurnInRange ==
    (calc.f = "_search")
        => /\ obs.id_bit_number \in 2 .. 65
           /\ obs.rom_byte_number = ByteIndexAt(obs.id_bit_number)
           /\ obs.last_zero \in { 0, TurnPosition }
           /\ state.last_family_discrepancy \in 0 .. 8
           /\ ByteIndexAt(TurnPosition) \in 0 .. 7

-----------------------------------------------------------------------------
(* the CRC8 table against the polynomial *)

\* x^8 + x^5 + x^4 + 1 with the bits reversed (x^0 at bit 7, x^4 at bit 3,
\* x^5 at bit 2): 0x8C
DallasPolynomial == 2 ^ 7 + 2 ^ 3 + 2 ^ 2

\* one shift of the bitwise CRC, least significant bit first
ShiftOut(crc) ==
    IF crc % 2 = 1 THEN Xor8(crc \div 2, DallasPolynomial) ELSE crc \div 2

RECURSIVE ShiftOutTimes(_, _)
ShiftOutTimes(crc, n) ==
    IF n = 0 THEN crc ELSE ShiftOutTimes(ShiftOut(crc), n - 1)

\* the bitwise Dallas/Maxim CRC-8 step: the byte is XORed into the
\* accumulator, which is then shifted out eight times
DallasCrc8(crc, data) == ShiftOutTimes(Xor8(crc, data), 8)

\* C38: for every accumulator value crc and data byte in 0..255, the
\* table-driven step _calc_crc(crc, data) equals the bitwise Dallas/Maxim CRC-8
\* step (polynomial x^8 + x^5 + x^4 + 1, least significant bit first,
\* reflected constant 0x8C) applied to crc and data.
C38_TableIsDallasCrc8 ==
    (calc.f = "owb_crc8")
        => calc.crc = DallasCrc8(calc.buffer[1], calc.buffer[2])

\* the step on accumulator 0xA5 and byte 0x5A: 0xFF shifted out is 0x35
C38_Witness ==
    /\ calc.f = "owb_crc8"
    /\ calc.buffer = << 165, 90 >>
    /\ calc.crc = 53
    /\ DallasCrc8(165, 90) = 53

====
